---------------------------- MODULE Spec2Model ----------------------------
(***************************************************************************)
(* voice-pause-video: the capture session with its pause ledger, the trim  *)
(* history (trim-silence / undo / redo) of src/src/main.js, and the export *)
(* sweep of src/src/exporter.js.                                           *)
(*                                                                         *)
(* Units.  Video time and pause durations are JavaScript doubles in        *)
(* seconds; here they are integers counting 1/Ms of a millisecond, so that *)
(* values finer than toFixed(3) and than the 0.001 s guard exist.  The     *)
(* wall clock (performance.now()) counts whole milliseconds.  PCM samples  *)
(* are counted in hundredths (0.01).  A trim fraction i/len is the pair    *)
(* <<numerator, denominator>> in lowest terms, and <<0, 0>> is NaN (0/0).  *)
(***************************************************************************)
EXTENDS Integers, Sequences, FiniteSets, TLC

(***************************** bounds **************************************)
\* deepest undo stack (trim is disabled beyond it)
MaxHist == 2
\* most startRecording calls suspended at getUserMedia, most recorder stop
\* events not yet handled, most onstop handlers suspended in decodeAudioData,
\* most loadVideoFile calls suspended at videoEl.play()
MaxPending == 1
\* time quanta per millisecond (the resolution of the model's time values)
Ms == 3
\* most committed pause events (a resume that would commit one more is disabled)
MaxPauses == 2
\* events in a pause list handed to the export sweep
MaxPlan == 2
\* most video files loaded
MaxLoads == 1
\* most Exporter instances created (an export click beyond it is disabled)
MaxExports == 2
\* most export() calls made on one Exporter instance
MaxCalls == 2
\* characters in a status message of the engine
MaxMsg == 5
\* samples in a buffer handed to the waveform, and columns of its canvas
MaxWave == 3
MaxWidth == 3
MaxT == 2
MaxAcc == 2
MaxSessions == 2
MaxChunks == 2
MaxStarts == 2
MaxJobs == 2
MaxEngines == 3
\* most media events queued and not yet dispatched
MaxEvq == 2
\* the wall clock stops advancing here (milliseconds)
MaxNow == 25

(************************** program constants ******************************)
\* const threshold = 0.02, in hundredths
Threshold == 2

\* Math.max(0.01, dur): 0.01 s
MinPause == 10 * Ms

\* ensureFFmpeg waits for the library at most 10 times
PollLimit == 10

Null == "null"

\* audioPCM is null, or holds one Float32Array
NoPCM == <<>>
SomePCM(pcm) == <<pcm>>

\* window._vpv_lastPause is undefined, or holds one { t, frame }
NoPause == <<>>
SomePause(t, frame) == <<[t |-> t, frame |-> frame]>>

Abs(x) == IF x < 0 THEN -x ELSE x

RECURSIVE GCD(_, _)
GCD(a, b) == IF b = 0 THEN a ELSE GCD(b, a % b)

\* the double n/d of JavaScript; 0/0 is NaN
Frac(n, d) == IF d = 0 THEN <<0, 0>>
              ELSE LET g == GCD(n, d) IN <<n \div g, d \div g>>

IsNaN(q) == q[2] = 0
\* JavaScript's <= and < on doubles: false when either side is NaN
Leq(p, q) == ~IsNaN(p) /\ ~IsNaN(q) /\ p[1] * q[2] <= q[1] * p[2]
Lt(p, q) == ~IsNaN(p) /\ ~IsNaN(q) /\ p[1] * q[2] < q[1] * p[2]

\* the buffers decodeAudioData delivers here, in hundredths (-2 is loud: 0.02
\* is not below the threshold; 1 is silent): one silent sample, all silent,
\* loud at index 0 only, loud in the middle only, all loud.  An AudioBuffer
\* holds at least one sample.
PCMs == {<<1>>, <<1, 1>>, <<-2, 1>>, <<1, -2, 1>>, <<-2, -2>>}

\* the playback positions at which the session is observed, in quanta:
\* 0, under a millisecond, 13.3 ms, and the end of the video at 25 ms
VTimes == {0, Ms - 1, 13 * Ms + 1, 25 * Ms}
\* videoEl.duration
VideoDur == 25 * Ms
\* how far performance.now() moves between two handlers (milliseconds)
TickSteps == {20}

Last(s) == s[Len(s)]
Front(s) == SubSeq(s, 1, Len(s) - 1)

VARIABLES
  \* main.js globals
  audioPCM, audioBlob, isRecording, trimRange, undoStack, redoStack, pauses,
  \* window._vpv_lastPause, window._vpv_pauseStartAt
  lastPause, pauseStartAt,
  \* suspended async calls and queued recorder events
  startPending, stopPending, decoding, loading,
  \* the video element: files loaded so far (0: no src), paused, currentTime,
  \* and its queued "play" / "pause" events
  vSrc, vPaused, vTime, evq,
  \* performance.now()
  now,
  \* history: how often the candidate in lastPause has been committed
  lpCommits,
  \* history: the handler that ran last ("trim", "undo", "redo", "toggle", or
  \* "other") and the number of redo entries it discarded
  lastOp,
  \* a running export: its position, the sweep's position in pauses, the
  \* locals last, segIndex and concatList, the engine invocations issued so
  \* far, and the duration of the video staged as input.mp4
  xpc, xi, last, segIndex, concatList, runs, inputDur,
  \* the Exporter instance of that export: how many instances were created,
  \* this.ffmpeg (0: null, else an index into engines), the engines it created
  \* with their load state and working storage, whether window.FFmpeg is
  \* present, and the number of export() calls made on the instance
  exporters, ffmpeg, engines, libReady, calls,
  \* locals of the running export: its call number, the engine whose load()
  \* it awaits, the loop counter i of ensureFFmpeg
  xid, xload, polls,
  \* a second export() call on the same instance, overlapping the first:
  \* its position, call number, awaited engine and loop counter
  ypc, yid, yload, ypolls,
  \* history: the running export has failed; doExport has triggered the
  \* download; the pause list as it was when the export was invoked; a
  \* staging call or invocation was issued to an engine that is not loaded
  xfailed, downloaded, pauses0, coldCall,
  \* the logger: the last status message and what was passed to onProgress
  \* for it (-1: no call)
  msg, progress,
  \* the message the engine emits after msg, if any (<<>>: the logger is
  \* called without a message); how many of the two have been logged; the
  \* values passed to onProgress so far, in call order
  later, logged, progLog,
  \* the waveform: this.width, the buffer last drawn, the (min, max) pairs
  \* drawn for the columns
  wWidth, wPCM, columns,
  \* the pause test: the events handed to accumulatePauses and its result
  \* (-1: not yet computed)
  accEvents, accTotal,
  \* the recorders: the shared array audioChunks of chunks <<session, k>>;
  \* the sessions whose recorder is recording; per session the number of
  \* non-empty chunks its recorder has delivered; the sessions whose stop
  \* task is queued, oldest first; the parts of the blob last assembled and
  \* the session whose stop handler assembled it (0: none)
  audioChunks, live, sent, stopping, blobParts, blobBy,
  \* what the record button says it will do when clicked: "start" or "stop";
  \* per session the length pauses had when its recorder was started
  recLabel, ledgerAt,
  \* doExport calls side by side: per call its position, the invocations it
  \* has completed and its engine; per engine the invocations in flight;
  \* whether an invocation was ever issued to an engine with one in flight
  jpc, jrun, jeng, busy, clash,
  \* doExport's local trimmed (the narration it prepared for the exporter)
  \* and what the exporter wrote as 'voice.m4a'; <<>>: none yet
  trimmed, voiceM4a

trimVars == <<trimRange, undoStack, redoStack>>
captureVars == <<audioPCM, audioBlob, isRecording, startPending, stopPending, decoding>>
videoVars == <<vSrc, vPaused, vTime, evq, loading>>
ledgerVars == <<pauses, lastPause, pauseStartAt, lpCommits>>
exportVars == <<xpc, xi, last, segIndex, concatList, runs, inputDur>>
instVars == <<exporters, ffmpeg, engines, libReady, calls, xid, xload, polls>>
otherCallVars == <<ypc, yid, yload, ypolls>>
histVars == <<xfailed, downloaded, pauses0, coldCall>>
progVars == <<msg, progress, later, logged, progLog>>
waveVars == <<wWidth, wPCM, columns>>
accVars == <<accEvents, accTotal>>
recVars == <<audioChunks, live, sent, stopping, blobParts, blobBy, recLabel, ledgerAt>>
jobVars == <<jpc, jrun, jeng, busy, clash>>
cutVars == <<trimmed, voiceM4a>>
moreVars == <<accVars, recVars, jobVars, cutVars>>
sideVars == <<instVars, otherCallVars, histVars, progVars, waveVars, moreVars>>
vars == <<trimVars, captureVars, videoVars, ledgerVars, now, lastOp, exportVars, sideVars>>

Did(h, n) == [op |-> h, dropped |-> n]

DefaultRange == [start |-> <<0, 1>>, end |-> <<1, 1>>]

(**************************** trim silence *********************************)
\* while (i < audioPCM.length && Math.abs(audioPCM[i]) < threshold) i++;
RECURSIVE ScanFwd(_, _)
ScanFwd(pcm, i) == IF i < Len(pcm) /\ Abs(pcm[i + 1]) < Threshold
                   THEN ScanFwd(pcm, i + 1) ELSE i

\* while (j > 0 && Math.abs(audioPCM[j]) < threshold) j--;
RECURSIVE ScanBack(_, _)
ScanBack(pcm, j) == IF j > 0 /\ Abs(pcm[j + 1]) < Threshold
                    THEN ScanBack(pcm, j - 1) ELSE j

\* trimRange = { start: i / audioPCM.length, end: (j + 1) / audioPCM.length }
TrimOf(pcm) == [start |-> Frac(ScanFwd(pcm, 0), Len(pcm)),
                end |-> Frac(ScanBack(pcm, Len(pcm) - 1) + 1, Len(pcm))]

\* the page as loaded, with nothing stored under vpv_state
\* no Exporter yet and no export running
\* nothing more is to be logged
NoLater == later = <<>> /\ logged = 0 /\ progLog = <<>>

\* no recorder has been created: mediaRecorder = null, audioChunks = []
RecInit ==
  /\ audioChunks = <<>> /\ live = {} /\ sent = <<>> /\ stopping = <<>>
  /\ blobParts = <<>> /\ blobBy = 0
  /\ recLabel = "start" /\ ledgerAt = <<>>

\* no doExport call is running and no engine exists
JobInit ==
  /\ jpc = [p \in 1..MaxJobs |-> "idle"] /\ jrun = [p \in 1..MaxJobs |-> 0]
  /\ jeng = [p \in 1..MaxJobs |-> 0] /\ busy = <<>> /\ clash = FALSE

\* no export has prepared or staged a narration
CutInit == trimmed = <<>> /\ voiceM4a = <<>>

\* that, and accumulatePauses has not been called
MoreInit == accEvents = <<>> /\ accTotal = -1 /\ RecInit /\ JobInit /\ CutInit

InstInit ==
  /\ MoreInit
  /\ exporters = 0 /\ ffmpeg = 0 /\ engines = <<>> /\ calls = 0
  /\ xid = 0 /\ xload = 0 /\ polls = 0
  /\ ypc = "idle" /\ yid = 0 /\ yload = 0 /\ ypolls = 0
  /\ xfailed = FALSE /\ downloaded = FALSE /\ pauses0 = <<>> /\ coldCall = FALSE

\* that, nothing logged and nothing drawn
SideInit ==
  /\ InstInit
  /\ msg = <<>> /\ progress = -1 /\ NoLater
  /\ wWidth = 0 /\ wPCM = <<>> /\ columns = <<>>

Init ==
  /\ audioPCM = NoPCM /\ audioBlob = Null /\ isRecording = FALSE
  /\ trimRange = DefaultRange /\ undoStack = <<>> /\ redoStack = <<>>
  /\ pauses = <<>> /\ lastPause = NoPause /\ pauseStartAt = 0 /\ lpCommits = 0
  /\ startPending = 0 /\ stopPending = 0 /\ decoding = 0 /\ loading = 0
  /\ vSrc = 0 /\ vPaused = TRUE /\ vTime = 0 /\ evq = <<>>
  /\ now = 5
  /\ lastOp = Did("init", 0)
  /\ xpc = "idle" /\ xi = 1 /\ last = 0 /\ segIndex = 0
  /\ concatList = <<>> /\ runs = <<>> /\ inputDur = VideoDur
  /\ SideInit /\ libReady = FALSE

\* undoStack.push({ type: 'trim', from: prev, to: trimRange })
PushTrim(us, prev, new) == Append(us, [from |-> prev, to |-> new])

\* a trim that forgets to clear the redo stack
RedoAfterTrim_kept(rs) == rs

\* redoStack.length = 0
RedoAfterTrim(rs) == <<>>

\* trimSilenceBtn click
TrimSilence ==
  /\ lastOp' = Did("trim", IF audioPCM = NoPCM THEN 0 ELSE Len(redoStack))
  /\ UNCHANGED <<exportVars, sideVars>>
  /\ UNCHANGED <<captureVars, videoVars, ledgerVars, now>>
  /\ IF audioPCM = NoPCM
     THEN UNCHANGED trimVars
     ELSE /\ Len(undoStack) < MaxHist
          /\ trimRange' = TrimOf(audioPCM[1])
          /\ undoStack' = PushTrim(undoStack, trimRange, trimRange')
          /\ redoStack' = RedoAfterTrim(redoStack)

\* an undo that restores the wrong end of the item
UndoRange_to(item) == item.to

\* trimRange = item.from
UndoRange(item) == item.from

\* undo without its guard: redoStack.push(undefined), then item.from throws
UndoEmpty_unguarded == redoStack' = Append(redoStack, Null) /\ UNCHANGED <<trimRange, undoStack>>

\* undo: if (!item) return;
UndoEmpty == UNCHANGED trimVars

\* redo: if (!item) return;
RedoEmpty == UNCHANGED trimVars

\* undoBtn click: const item = undoStack.pop();
Undo ==
  /\ lastOp' = Did("undo", 0)
  /\ UNCHANGED <<exportVars, sideVars>>
  /\ UNCHANGED <<captureVars, videoVars, ledgerVars, now>>
  /\ IF undoStack = <<>>
     THEN UndoEmpty
     ELSE /\ undoStack' = Front(undoStack)
          /\ redoStack' = Append(redoStack, Last(undoStack))
          /\ trimRange' = UndoRange(Last(undoStack))

\* trimRange = item.to
RedoRange(item) == item.to

\* redoBtn click: const item = redoStack.pop();
Redo ==
  /\ lastOp' = Did("redo", 0)
  /\ UNCHANGED <<exportVars, sideVars>>
  /\ UNCHANGED <<captureVars, videoVars, ledgerVars, now>>
  /\ IF redoStack = <<>>
     THEN RedoEmpty
     ELSE /\ redoStack' = Front(redoStack)
          /\ undoStack' = Append(undoStack, Last(redoStack))
          /\ trimRange' = RedoRange(Last(redoStack))

(***************************** video element ******************************)
\* the video has played to its end
Ended == vSrc # 0 /\ vTime = VideoDur

\* videoEl.play(): paused becomes false and a "play" event is queued when it
\* was paused; playback that had ended restarts at 0
PlayQ == IF vPaused THEN Append(evq, "play") ELSE evq
PlayT == IF Ended THEN 0 ELSE vTime

\* videoEl.pause(): paused becomes true and a "pause" event is queued when it
\* was playing
PauseQ == IF vPaused THEN evq ELSE Append(evq, "pause")

(*************************** capture session *******************************)
\* startRecBtn click (also the R key): stopRecording() when recording,
\* else startRecording() up to its await of getUserMedia
RecClick ==
  /\ lastOp' = Did("other", 0)
  /\ UNCHANGED <<exportVars, sideVars>>
  /\ UNCHANGED <<trimVars, videoVars, ledgerVars, now, audioPCM, audioBlob, decoding>>
  /\ IF isRecording
     THEN /\ stopPending < MaxPending
          /\ stopPending' = stopPending + 1
          /\ isRecording' = FALSE
          /\ UNCHANGED startPending
     ELSE /\ startPending < MaxPending
          /\ startPending' = startPending + 1
          /\ UNCHANGED <<isRecording, stopPending>>

\* startRecording after getUserMedia resolved: the recorder is created and
\* started, isRecording = true, await videoEl.play()
StartResume ==
  /\ startPending > 0
  /\ Len(PlayQ) <= MaxEvq
  /\ startPending' = startPending - 1
  /\ isRecording' = TRUE
  /\ vPaused' = FALSE /\ evq' = PlayQ /\ vTime' = PlayT
  /\ lastOp' = Did("other", 0)
  /\ UNCHANGED <<exportVars, sideVars>>
  /\ UNCHANGED <<trimVars, ledgerVars, now, audioPCM, audioBlob, stopPending, decoding, vSrc, loading>>

\* getUserMedia rejected: startRecording ends there
StartFail ==
  /\ startPending > 0
  /\ startPending' = startPending - 1
  /\ lastOp' = Did("other", 0)
  /\ UNCHANGED <<exportVars, sideVars>>
  /\ UNCHANGED <<trimVars, videoVars, ledgerVars, now, audioPCM, audioBlob, isRecording, stopPending, decoding>>

\* mediaRecorder.onstop up to its first await: audioBlob = new Blob(audioChunks)
OnStop ==
  /\ stopPending > 0
  /\ decoding < MaxPending
  /\ stopPending' = stopPending - 1
  /\ decoding' = decoding + 1
  /\ audioBlob' = "blob"
  /\ lastOp' = Did("other", 0)
  /\ UNCHANGED <<exportVars, sideVars>>
  /\ UNCHANGED <<trimVars, videoVars, ledgerVars, now, audioPCM, isRecording, startPending>>

\* onstop after decodeAudioData resolved: audioPCM = copy of channel 0
Decoded(pcm) ==
  /\ decoding > 0
  /\ decoding' = decoding - 1
  /\ audioPCM' = SomePCM(pcm)
  /\ lastOp' = Did("other", 0)
  /\ UNCHANGED <<exportVars, sideVars>>
  /\ UNCHANGED <<trimVars, videoVars, ledgerVars, now, audioBlob, isRecording, startPending, stopPending>>

\* decodeAudioData rejected: the handler ends without setting audioPCM
DecodeFail ==
  /\ decoding > 0
  /\ decoding' = decoding - 1
  /\ lastOp' = Did("other", 0)
  /\ UNCHANGED <<exportVars, sideVars>>
  /\ UNCHANGED <<trimVars, videoVars, ledgerVars, now, audioPCM, audioBlob, isRecording, startPending, stopPending>>

\* the video element dispatches its oldest queued event:
\* "pause": if (isRecording) window._vpv_pauseStartAt = performance.now()
\* "play":  window._vpv_pauseStartAt = 0
MediaEvent ==
  /\ evq # <<>>
  /\ evq' = Tail(evq)
  /\ pauseStartAt' = IF Head(evq) = "play" THEN 0
                     ELSE IF isRecording THEN now ELSE pauseStartAt
  /\ lastOp' = Did("other", 0)
  /\ UNCHANGED <<exportVars, sideVars>>
  /\ UNCHANGED <<trimVars, captureVars, now, pauses, lastPause, lpCommits, vSrc, vPaused, vTime, loading>>

(****************************** pause ledger *******************************)
\* dataURLOfCurrentFrame(videoEl): the picture of file src at position t
FrameOf(src, t) == [src |-> src, t |-> t]

\* const dur = prev ? (performance.now() - prev) / 1000 : 0.01, in quanta
ElapsedPause(prev, n) == IF prev # 0 THEN (n - prev) * Ms ELSE MinPause

\* a maximum that returns its second argument
Max_second(a, b) == b

\* Math.max
Max(a, b) == IF a >= b THEN a ELSE b

\* a commit that replaces the newest event instead of appending
CommitPause_overwrite(ps, lp, dur) ==
  IF ps = <<>>
  THEN <<[startVideoTime |-> lp.t, pauseDuration |-> Max(MinPause, dur), frameDataURL |-> lp.frame]>>
  ELSE [ps EXCEPT ![Len(ps)] = [startVideoTime |-> lp.t, pauseDuration |-> Max(MinPause, dur),
                                frameDataURL |-> lp.frame]]

\* pauses.push({ startVideoTime: lp.t, pauseDuration: Math.max(0.01, dur), frameDataURL: lp.frame })
CommitPause(ps, lp, dur) ==
  Append(ps, [startVideoTime |-> lp.t, pauseDuration |-> Max(MinPause, dur),
              frameDataURL |-> lp.frame])

\* togglePause (the button, or the Space key)
TogglePause ==
  /\ lastOp' = Did("toggle", 0)
  /\ UNCHANGED <<exportVars, sideVars>>
  /\ UNCHANGED <<trimVars, captureVars, now, pauseStartAt, vSrc, loading>>
  /\ IF ~isRecording
     THEN UNCHANGED <<pauses, lastPause, lpCommits, vPaused, vTime, evq>>
     ELSE IF ~vPaused
     THEN \* capture a candidate and pause the video
          /\ Len(PauseQ) <= MaxEvq
          /\ lastPause' = SomePause(vTime, FrameOf(vSrc, vTime))
          /\ lpCommits' = 0
          /\ vPaused' = TRUE /\ evq' = PauseQ
          /\ UNCHANGED <<pauses, vTime>>
     ELSE \* commit the candidate, if there is one, and play
          /\ Len(PlayQ) <= MaxEvq
          /\ IF lastPause # NoPause
             THEN /\ Len(pauses) < MaxPauses
                  /\ pauses' = CommitPause(pauses, lastPause[1], ElapsedPause(pauseStartAt, now))
                  /\ lpCommits' = lpCommits + 1
             ELSE UNCHANGED <<pauses, lpCommits>>
          /\ vPaused' = FALSE /\ evq' = PlayQ /\ vTime' = PlayT
          /\ UNCHANGED lastPause

\* playback moves on to position t; at the end of the video the element sets
\* paused and fires its "pause" event (HTML Standard, reaching the end)
VideoAdvance(t) ==
  /\ ~vPaused /\ vSrc # 0 /\ loading = 0
  /\ t > vTime
  /\ vTime' = t
  /\ IF t = VideoDur
     THEN /\ vPaused' = TRUE
          /\ pauseStartAt' = IF isRecording THEN now ELSE pauseStartAt
     ELSE UNCHANGED <<vPaused, pauseStartAt>>
  /\ lastOp' = Did("other", 0)
  /\ UNCHANGED <<exportVars, sideVars>>
  /\ UNCHANGED <<trimVars, captureVars, now, pauses, lastPause, lpCommits, vSrc, evq, loading>>

\* time passes
Tick(d) ==
  /\ now + d <= MaxNow
  /\ now' = now + d
  /\ lastOp' = Did("other", 0)
  /\ UNCHANGED <<exportVars, sideVars>>
  /\ UNCHANGED <<trimVars, captureVars, videoVars, ledgerVars>>

\* loadVideoFile up to its await: videoEl.src = url resets the element
\* (paused, position 0), then videoEl.play()
LoadVideoBegin ==
  /\ vSrc < MaxLoads /\ loading < MaxPending
  /\ Len(evq) < MaxEvq
  /\ vSrc' = vSrc + 1
  /\ vTime' = 0
  /\ vPaused' = FALSE /\ evq' = Append(evq, "play")
  /\ loading' = loading + 1
  /\ lastOp' = Did("other", 0)
  /\ UNCHANGED <<exportVars, sideVars>>
  /\ UNCHANGED <<trimVars, captureVars, ledgerVars, now>>

\* loadVideoFile after play() settled: videoEl.pause()
LoadVideoResume ==
  /\ loading > 0
  /\ Len(PauseQ) <= MaxEvq
  /\ loading' = loading - 1
  /\ vPaused' = TRUE /\ evq' = PauseQ
  /\ lastOp' = Did("other", 0)
  /\ UNCHANGED <<exportVars, sideVars>>
  /\ UNCHANGED <<trimVars, captureVars, ledgerVars, now, vSrc, vTime>>

NextTrim ==
  \/ TrimSilence \/ Undo \/ Redo
  \/ RecClick \/ StartResume \/ StartFail
  \/ OnStop \/ DecodeFail
  \/ \E pcm \in PCMs : Decoded(pcm)
  \/ MediaEvent

SpecTrim == Init /\ [][NextTrim]_vars

\* the capture session and its pause ledger; the recorder's onstop chain,
\* which touches audioBlob and audioPCM only, is left to SpecTrim
NextLedger ==
  \/ RecClick \/ StartResume \/ StartFail
  \/ TogglePause \/ MediaEvent
  \/ LoadVideoBegin \/ LoadVideoResume
  \/ \E t \in VTimes : VideoAdvance(t)
  \/ \E d \in TickSteps : Tick(d)

SpecLedger == Init /\ [][NextLedger]_vars

(******************************** export ***********************************)
\* 0.001 s, the epsilon of the sweep's guard, in quanta
Eps == Ms

\* a formatting that cuts the digits off instead of rounding
fmtTime_floor(t) == t \div Ms

\* fmtTime = (t) => t.toFixed(3): the argument, in quanta, written with three
\* decimals, that is as the nearest whole number of milliseconds (the larger
\* one on a tie)
fmtTime(t) == (2 * t + Ms) \div (2 * Ms)

\* what the engine reads back from such an argument, in quanta
Val(ms) == ms * Ms

\* the pause lists handed to an export: events captured at the positions of
\* VTimes in the first or second file loaded, lasting the 10 ms floor, a
\* third of a millisecond more, or a whole number of quanta short of 11 ms
PDurs == {MinPause, MinPause + 1, MinPause + Ms - 1}
PlanEvents ==
  {[startVideoTime |-> s, pauseDuration |-> d, frameDataURL |-> FrameOf(src, s)] :
     s \in VTimes, d \in PDurs, src \in 1..2}
\* the durations of the video staged: VideoDur, and one long enough to hold a
\* pause captured at the last position
InputDurs == {VideoDur, 36 * Ms}

RECURSIVE SeqsUpTo(_, _)
SeqsUpTo(S, n) ==
  IF n = 0 THEN {<<>>}
  ELSE LET shorter == SeqsUpTo(S, n - 1)
       IN  shorter \cup {Append(q, e) : q \in {r \in shorter : Len(r) = n - 1}, e \in S}

\* the state when an export is requested for a given pause list
InitPlan ==
  /\ audioPCM = NoPCM /\ audioBlob = "blob" /\ isRecording = FALSE
  /\ trimRange = DefaultRange /\ undoStack = <<>> /\ redoStack = <<>>
  /\ pauses \in SeqsUpTo(PlanEvents, MaxPlan)
  /\ lastPause = NoPause /\ pauseStartAt = 0 /\ lpCommits = 0
  /\ startPending = 0 /\ stopPending = 0 /\ decoding = 0 /\ loading = 0
  /\ vSrc = 1 /\ vPaused = TRUE /\ vTime = 0 /\ evq = <<>>
  /\ now = 5
  /\ lastOp = Did("init", 0)
  /\ xpc = "idle" /\ xi = 1 /\ last = 0 /\ segIndex = 0
  /\ concatList = <<>> /\ runs = <<>>
  /\ inputDur \in InputDurs
  /\ SideInit /\ libReady = TRUE

Clip(k) == <<"seg", k>>
Still(k) == <<"still", k>>

\* ffmpeg -i input.mp4 -ss fmtTime(segStart) -to fmtTime(segEnd) -c copy out
RealRun(segStart, segEnd, k) ==
  [kind |-> "real", ss |-> fmtTime(segStart), to |-> fmtTime(segEnd), out |-> Clip(k)]

\* ffmpeg -loop 1 -i stillPng -t fmtTime(p.pauseDuration) ... stillMp4
FreezeRun(p, k) ==
  [kind |-> "freeze", png |-> Still(k), frame |-> p.frameDataURL,
   t |-> fmtTime(p.pauseDuration), out |-> Clip(k)]

\* ffmpeg -i input.mp4 -ss fmtTime(last) -c copy tailOut
TailRun(from, k) == [kind |-> "tail", ss |-> fmtTime(from), out |-> Clip(k)]

\* a sweep that moves the cursor past the pause instead of to its start
NextCursor_pastPause(p) == p.startVideoTime + p.pauseDuration

\* last = segEnd
NextCursor(p) == p.startVideoTime

(* The engine.  An engine is [loaded, fs]: loaded is "no" from createFFmpeg  *)
(* until load() settles, then "yes" or "failed"; fs is its working storage, *)
(* a set of [name, by] with by the number of the export() call that wrote   *)
(* the file.  FS and run reject on an engine that is not loaded.            *)
NewEngine == [loaded |-> "no", fs |-> {}]
File(name) == <<name, 0>>
\* FS('writeFile', name, ...) and the output of a run: a file of that name
\* is replaced
Write(fs, names, by) ==
  {f \in fs : f.name \notin names} \cup {[name |-> n, by |-> by] : n \in names}
EngineOK == ffmpeg # 0 /\ engines[ffmpeg].loaded = "yes"
Storage == IF ffmpeg = 0 THEN {} ELSE engines[ffmpeg].fs
Stored(names) == [engines EXCEPT ![ffmpeg].fs = Write(@, names, xid)]

\* Math.floor(q * n) for a fraction q that is not negative
FloorOf(q, n) == (q[1] * n) \div q[2]

\* const start = Math.floor(trimRange.start * audioPCM.length), and end
CutStart(pcm, range) == FloorOf(range.start, Len(pcm))
CutEnd(pcm, range) == FloorOf(range.end, Len(pcm))

\* new OfflineAudioContext(1, end - start, 48000) needs a length of at least
\* one frame; without a decoded buffer nothing is rendered
Renderable(a, range) ==
  \/ a = NoPCM
  \/ /\ ~IsNaN(range.start) /\ ~IsNaN(range.end)
     /\ CutEnd(a[1], range) - CutStart(a[1], range) >= 1

\* let trimmed = audioBlob; if (audioPCM) { ... ch.set(audioPCM.slice(start,
\* end)); ... trimmed = new Blob([wav]) }: the recorded blob as it is, or the
\* WAV of the samples of the range
Prepared(a, range) ==
  IF a = NoPCM THEN [wav |-> FALSE, samples |-> <<>>]
  ELSE [wav |-> TRUE, samples |-> SubSeq(a[1], CutStart(a[1], range) + 1, CutEnd(a[1], range))]

\* an exporter that prepares the narration when it stages it
StagedAudio_current(given, current) == current

\* export({ ..., audioBlob: trimmed, ... }): writeFile('voice.m4a', audioBlob)
StagedAudio(given, current) == given

\* a narration check that lets every export through
HasNarration_any(blob) == TRUE

\* if (!audioBlob) { alert(...); return; }
HasNarration(blob) == blob # Null

\* where ensureFFmpeg first suspends, or returns: "stage" when this.ffmpeg is
\* set, "load" at await this.ffmpeg.load() when the library is present,
\* "poll" at the first wait for it
EnsureTo == IF ffmpeg # 0 THEN "stage" ELSE IF libReady THEN "load" ELSE "poll"
\* this.ffmpeg = createFFmpeg(...)
Created == Append(engines, NewEngine)

\* a failure handling that goes on with the export
AfterFailure_goOn(pc) == pc

\* a rejected await leaves export() by its exception
AfterFailure(pc) == "failed"

\* the positions at which the export awaits a staging call or an invocation
EngineSteps == {"stage", "sweep", "concat", "voice", "mux"}

\* exportBtn click: doExport through new Exporter and export() up to the
\* first suspension of ensureFFmpeg
ExportBegin ==
  /\ xpc = "idle"
  /\ lastOp' = Did("export", 0)
  /\ UNCHANGED <<trimVars, captureVars, videoVars, ledgerVars, now, inputDur>>
  /\ UNCHANGED <<libReady, otherCallVars, coldCall, progVars, waveVars>>
  /\ UNCHANGED <<accVars, recVars, jobVars, voiceM4a>>
  /\ IF ~HasNarration(audioBlob)
     THEN UNCHANGED <<xpc, xi, last, segIndex, concatList, runs, exporters, ffmpeg,
                      engines, calls, xid, xload, polls, xfailed, downloaded, pauses0,
                      trimmed>>
     ELSE IF ~Renderable(audioPCM, trimRange)
     THEN \* new OfflineAudioContext(1, end - start, 48000) throws: the catch
          /\ exporters < MaxExports
          /\ exporters' = exporters + 1
          /\ xfailed' = TRUE /\ downloaded' = FALSE
          /\ trimmed' = <<>>
          /\ UNCHANGED <<xpc, xi, last, segIndex, concatList, runs, ffmpeg,
                         engines, calls, xid, xload, polls, pauses0>>
     ELSE /\ exporters < MaxExports
          /\ exporters' = exporters + 1
          /\ trimmed' = <<Prepared(audioPCM, trimRange)>>
          /\ calls' = 1 /\ xid' = 1 /\ polls' = 0
          /\ xfailed' = FALSE /\ downloaded' = FALSE /\ pauses0' = pauses
          /\ xi' = 1 /\ runs' = <<>>
          /\ UNCHANGED <<last, segIndex, concatList>>
          /\ IF libReady
             THEN xpc' = "load" /\ engines' = <<NewEngine>> /\ ffmpeg' = 1 /\ xload' = 1
             ELSE xpc' = "poll" /\ engines' = <<>> /\ ffmpeg' = 0 /\ xload' = 0

\* the script tag of the library finishes loading: window.FFmpeg appears
LibArrives ==
  /\ ~libReady
  /\ libReady' = TRUE
  /\ lastOp' = Did("other", 0)
  /\ UNCHANGED <<trimVars, captureVars, videoVars, ledgerVars, now, exportVars>>
  /\ UNCHANGED <<exporters, ffmpeg, engines, calls, xid, xload, polls>>
  /\ UNCHANGED <<otherCallVars, histVars, progVars, waveVars, moreVars>>

\* ensureFFmpeg after one wait of 500 ms: FM = window.FFmpeg; i++; then the
\* loop ends with the library found (create and load), goes round again, or
\* ends without it (throw new Error('FFmpeg library not loaded'))
EnginePoll ==
  /\ xpc = "poll" /\ polls < PollLimit
  /\ polls' = polls + 1
  /\ IF libReady
     THEN /\ xpc' = "load" /\ engines' = Created
          /\ ffmpeg' = Len(engines) + 1 /\ xload' = Len(engines) + 1
          /\ UNCHANGED xfailed
     ELSE /\ xpc' = IF polls + 1 < PollLimit THEN "poll" ELSE AfterFailure(xpc)
          /\ xfailed' = (polls + 1 >= PollLimit)
          /\ UNCHANGED <<engines, ffmpeg, xload>>
  /\ lastOp' = Did("other", 0)
  /\ UNCHANGED <<trimVars, captureVars, videoVars, ledgerVars, now>>
  /\ UNCHANGED <<xi, last, segIndex, concatList, runs, inputDur>>
  /\ UNCHANGED <<exporters, libReady, calls, xid, downloaded, pauses0, coldCall>>
  /\ UNCHANGED <<otherCallVars, progVars, waveVars, moreVars>>

\* await this.ffmpeg.load() resolves
EngineLoaded ==
  /\ xpc = "load"
  /\ engines' = [engines EXCEPT ![xload].loaded = "yes"]
  /\ xpc' = "stage"
  /\ lastOp' = Did("other", 0)
  /\ UNCHANGED <<trimVars, captureVars, videoVars, ledgerVars, now>>
  /\ UNCHANGED <<xi, last, segIndex, concatList, runs, inputDur>>
  /\ UNCHANGED <<exporters, ffmpeg, libReady, calls, xid, xload, polls>>
  /\ UNCHANGED <<otherCallVars, histVars, progVars, waveVars, moreVars>>

\* await this.ffmpeg.load() rejects
EngineLoadFail ==
  /\ xpc = "load"
  /\ engines' = [engines EXCEPT ![xload].loaded = "failed"]
  /\ xpc' = AfterFailure(xpc)
  /\ xfailed' = TRUE
  /\ lastOp' = Did("other", 0)
  /\ UNCHANGED <<trimVars, captureVars, videoVars, ledgerVars, now>>
  /\ UNCHANGED <<xi, last, segIndex, concatList, runs, inputDur>>
  /\ UNCHANGED <<exporters, ffmpeg, libReady, calls, xid, xload, polls>>
  /\ UNCHANGED <<downloaded, pauses0, coldCall>>
  /\ UNCHANGED <<otherCallVars, progVars, waveVars, moreVars>>
\* the program outside the export, and what an export step leaves alone
\* besides its own locals and the engines
appVars == <<trimVars, captureVars, videoVars, ledgerVars, now>>
quietVars == <<exporters, ffmpeg, libReady, calls, xid, xload, polls,
               otherCallVars, downloaded, pauses0, coldCall, progVars, waveVars, moreVars>>

\* a protocol that muxes straight after the concatenation
StepAfter_muxEarly(pc) ==
  CASE pc = "stage" -> "sweep" [] pc = "sweep" -> "concat"
    [] pc = "concat" -> "mux" [] pc = "voice" -> "mux" [] pc = "mux" -> "done"

\* the statement order of export(): staging, the sweep with its tail, the
\* concat, the narration encode, the mux and the read of output.mp4
StepAfter(pc) ==
  CASE pc = "stage" -> "sweep" [] pc = "sweep" -> "concat"
    [] pc = "concat" -> "voice" [] pc = "voice" -> "mux" [] pc = "mux" -> "done"

\* writeFile('input.mp4', videoBlob), writeFile('voice.m4a', audioBlob), and
\* the sweep's locals
StageInputs ==
  /\ xpc = "stage" /\ EngineOK
  /\ engines' = Stored({File("input.mp4"), File("voice.m4a")})
  /\ voiceM4a' = StagedAudio(trimmed, IF Renderable(audioPCM, trimRange)
                                      THEN <<Prepared(audioPCM, trimRange)>> ELSE <<>>)
  /\ xpc' = StepAfter(xpc)
  /\ last' = 0 /\ segIndex' = 0 /\ concatList' = <<>>
  /\ lastOp' = Did("other", 0)
  /\ UNCHANGED <<appVars, exporters, ffmpeg, libReady, calls, xid, xload, polls>>
  /\ UNCHANGED <<otherCallVars, downloaded, pauses0, coldCall, progVars, waveVars>>
  /\ UNCHANGED <<accVars, recVars, jobVars, trimmed, xfailed, xi, runs, inputDur>>

\* a guard without the epsilon
RealNeeded_nonEmpty(segStart, segEnd) == segEnd > segStart

\* if (segEnd > segStart + 0.001)
RealNeeded(segStart, segEnd) == segEnd > segStart + Eps

\* a tail that is elided like the other real segments
TailOf_guarded(from, k) == IF RealNeeded(from, inputDur) THEN <<TailRun(from, k)>> ELSE <<>>

\* the invocations after the loop: the tail segment, whatever its length
TailOf(from, k) == <<TailRun(from, k)>>

\* a freeze that takes the index of the real clip before it
FreezeIndex_same(real, i) == i

\* segIndex when the still and the freeze are named: one more than at the
\* start of the pass when the real clip has taken its index (segIndex++)
FreezeIndex(real, i) == IF real THEN i + 1 ELSE i

\* one pass of for (const p of pauses)
SweepStep ==
  /\ xpc = "sweep" /\ xi <= Len(pauses) /\ EngineOK
  /\ LET p == pauses[xi]
         segStart == last
         segEnd == p.startVideoTime
         real == RealNeeded(segStart, segEnd)
         k == FreezeIndex(real, segIndex)
         cut == IF real THEN <<RealRun(segStart, segEnd, segIndex)>> ELSE <<>>
     IN  /\ runs' = runs \o cut \o <<FreezeRun(p, k)>>
         /\ concatList' = concatList \o [i \in 1..Len(cut) |-> cut[i].out] \o <<Clip(k)>>
         /\ engines' = Stored({cut[i].out : i \in 1..Len(cut)} \cup {Still(k), Clip(k)})
         /\ segIndex' = k + 1
         /\ last' = NextCursor(p)
  /\ xi' = xi + 1
  /\ lastOp' = Did("other", 0)
  /\ UNCHANGED <<appVars, quietVars, xfailed, xpc, inputDur>>

\* the tail segment, once the list is exhausted
SweepTail ==
  /\ xpc = "sweep" /\ xi > Len(pauses) /\ EngineOK
  /\ LET tail == TailOf(last, segIndex)
     IN  /\ runs' = runs \o tail
         /\ concatList' = concatList \o [i \in 1..Len(tail) |-> tail[i].out]
         /\ engines' = Stored({tail[i].out : i \in 1..Len(tail)})
         /\ segIndex' = segIndex + Len(tail)
  /\ xpc' = StepAfter(xpc)
  /\ lastOp' = Did("other", 0)
  /\ UNCHANGED <<appVars, quietVars, xfailed, xi, last, inputDur>>

\* a list written last entry first
ConcatTxt_reversed(list) == [i \in 1..Len(list) |-> list[Len(list) + 1 - i]]

\* const concatTxt = concatList.join('\n'): one line per entry, in order
ConcatTxt(list) == list

\* list.txt and ffmpeg -f concat -safe 0 -i list.txt -c copy video_full.mp4
ExportConcat ==
  /\ xpc = "concat" /\ EngineOK
  /\ runs' = Append(runs, [kind |-> "concat", list |-> ConcatTxt(concatList)])
  /\ engines' = Stored({File("list.txt"), File("video_full.mp4")})
  /\ xpc' = StepAfter(xpc)
  /\ lastOp' = Did("other", 0)
  /\ UNCHANGED <<appVars, quietVars, xfailed, xi, last, segIndex, concatList, inputDur>>

\* ffmpeg -i voice.m4a ... voice.aac
ExportVoice ==
  /\ xpc = "voice" /\ EngineOK
  /\ runs' = Append(runs, [kind |-> "voice"])
  /\ engines' = Stored({File("voice.aac")})
  /\ xpc' = StepAfter(xpc)
  /\ lastOp' = Did("other", 0)
  /\ UNCHANGED <<appVars, quietVars, xfailed, xi, last, segIndex, concatList, inputDur>>

\* ffmpeg -i video_full.mp4 -i voice.aac ... output.mp4, and the file read back
ExportMux ==
  /\ xpc = "mux" /\ EngineOK
  /\ runs' = Append(runs, [kind |-> "mux"])
  /\ engines' = Stored({File("output.mp4")})
  /\ xpc' = StepAfter(xpc)
  /\ lastOp' = Did("other", 0)
  /\ UNCHANGED <<appVars, quietVars, xfailed, xi, last, segIndex, concatList, inputDur>>

\* doExport after exporter.export has returned: the download
ExportFinish ==
  /\ xpc = "done"
  /\ xpc' = "idle"
  /\ downloaded' = TRUE
  /\ lastOp' = Did("other", 0)
  /\ UNCHANGED <<appVars, xi, last, segIndex, concatList, runs, inputDur>>
  /\ UNCHANGED <<instVars, otherCallVars, xfailed, pauses0, coldCall, progVars, waveVars, moreVars>>

\* the staging call or invocation the export awaits is rejected by the engine
ExportFail ==
  /\ xpc \in EngineSteps /\ EngineOK
  /\ xpc' = AfterFailure(xpc)
  /\ xfailed' = TRUE
  /\ lastOp' = Did("other", 0)
  /\ UNCHANGED <<appVars, xi, last, segIndex, concatList, runs, inputDur>>
  /\ UNCHANGED <<instVars, otherCallVars, downloaded, pauses0, coldCall, progVars, waveVars, moreVars>>

\* the staging call or invocation goes to an engine that is not loaded, which
\* rejects it
ExportCold ==
  /\ xpc \in EngineSteps /\ ~EngineOK
  /\ coldCall' = TRUE
  /\ xpc' = AfterFailure(xpc)
  /\ xfailed' = TRUE
  /\ lastOp' = Did("other", 0)
  /\ UNCHANGED <<appVars, xi, last, segIndex, concatList, runs, inputDur>>
  /\ UNCHANGED <<instVars, otherCallVars, downloaded, pauses0, progVars, waveVars, moreVars>>

\* doExport's catch: console.error, alert
ExportCatch ==
  /\ xpc = "failed"
  /\ xpc' = "idle"
  /\ lastOp' = Did("other", 0)
  /\ UNCHANGED <<appVars, xi, last, segIndex, concatList, runs, inputDur>>
  /\ UNCHANGED <<instVars, otherCallVars, histVars, progVars, waveVars, moreVars>>

NextPlan ==
  \/ ExportBegin \/ EngineLoaded \/ StageInputs \/ SweepStep \/ SweepTail
  \/ ExportConcat \/ ExportVoice \/ ExportMux \/ ExportFinish

SpecPlan == InitPlan /\ [][NextPlan]_vars

\* the page with a video loaded (loadVideoFile has returned and its media
\* events are dispatched) and the library present
InitExport ==
  /\ audioPCM = NoPCM /\ audioBlob = Null /\ isRecording = FALSE
  /\ trimRange = DefaultRange /\ undoStack = <<>> /\ redoStack = <<>>
  /\ pauses = <<>> /\ lastPause = NoPause /\ pauseStartAt = 0 /\ lpCommits = 0
  /\ startPending = 0 /\ stopPending = 0 /\ decoding = 0 /\ loading = 0
  /\ vSrc = 1 /\ vPaused = TRUE /\ vTime = 0 /\ evq = <<>>
  /\ now = 5
  /\ lastOp = Did("init", 0)
  /\ xpc = "idle" /\ xi = 1 /\ last = 0 /\ segIndex = 0
  /\ concatList = <<>> /\ runs = <<>> /\ inputDur = VideoDur
  /\ SideInit /\ libReady = TRUE

\* exports of the program, each on its own Exporter, while the capture
\* session goes on; the wait for a library that is still loading is left to
\* SpecExporter
NextExport ==
  \/ RecClick \/ StartResume \/ OnStop \/ TogglePause \/ MediaEvent
  \/ ExportBegin \/ EngineLoaded \/ EngineLoadFail
  \/ StageInputs \/ SweepStep \/ SweepTail
  \/ ExportConcat \/ ExportVoice \/ ExportMux \/ ExportFinish
  \/ ExportFail \/ ExportCatch

SpecExport == InitExport /\ [][NextExport]_vars

(************************ one Exporter, used again *************************)
\* a caller that keeps its Exporter: export() is called again on the instance
\* after the earlier call has returned or thrown
ExportAgain ==
  /\ xpc = "idle" /\ exporters > 0 /\ calls < MaxCalls
  /\ calls' = calls + 1 /\ xid' = calls + 1 /\ polls' = 0
  /\ xfailed' = FALSE /\ downloaded' = FALSE /\ pauses0' = pauses
  /\ xi' = 1 /\ runs' = <<>>
  /\ xpc' = EnsureTo
  /\ IF EnsureTo = "load"
     THEN engines' = Created /\ ffmpeg' = Len(engines) + 1 /\ xload' = Len(engines) + 1
     ELSE UNCHANGED <<engines, ffmpeg, xload>>
  /\ lastOp' = Did("export", 0)
  /\ UNCHANGED <<appVars, last, segIndex, concatList, inputDur>>
  /\ UNCHANGED <<exporters, libReady, otherCallVars, coldCall, progVars, waveVars, moreVars>>

\* export() is called on the instance while an earlier call is still running
ExportOverlap ==
  /\ ypc = "idle" /\ xpc \notin {"idle", "done", "failed"} /\ calls < MaxCalls
  /\ calls' = calls + 1 /\ yid' = calls + 1 /\ ypolls' = 0
  /\ ypc' = EnsureTo
  /\ IF EnsureTo = "load"
     THEN engines' = Created /\ ffmpeg' = Len(engines) + 1 /\ yload' = Len(engines) + 1
     ELSE UNCHANGED <<engines, ffmpeg, yload>>
  /\ lastOp' = Did("other", 0)
  /\ UNCHANGED <<appVars, exportVars, exporters, libReady, xid, xload, polls>>
  /\ UNCHANGED <<histVars, progVars, waveVars, moreVars>>

\* the overlapping call's ensureFFmpeg after one wait of 500 ms
OtherPoll ==
  /\ ypc = "poll" /\ ypolls < PollLimit
  /\ ypolls' = ypolls + 1
  /\ IF libReady
     THEN /\ ypc' = "load" /\ engines' = Created
          /\ ffmpeg' = Len(engines) + 1 /\ yload' = Len(engines) + 1
     ELSE /\ ypc' = IF ypolls + 1 < PollLimit THEN "poll" ELSE "end"
          /\ UNCHANGED <<engines, ffmpeg, yload>>
  /\ lastOp' = Did("other", 0)
  /\ UNCHANGED <<appVars, exportVars, exporters, libReady, calls, xid, xload, polls, yid>>
  /\ UNCHANGED <<histVars, progVars, waveVars, moreVars>>

\* the overlapping call's await this.ffmpeg.load() resolves
OtherLoaded ==
  /\ ypc = "load"
  /\ engines' = [engines EXCEPT ![yload].loaded = "yes"]
  /\ ypc' = "stage"
  /\ lastOp' = Did("other", 0)
  /\ UNCHANGED <<appVars, exportVars, exporters, ffmpeg, libReady, calls, xid, xload, polls>>
  /\ UNCHANGED <<yid, yload, ypolls, histVars, progVars, waveVars, moreVars>>

\* the overlapping call's await this.ffmpeg.load() rejects: the call ends
OtherLoadFail ==
  /\ ypc = "load"
  /\ engines' = [engines EXCEPT ![yload].loaded = "failed"]
  /\ ypc' = "end"
  /\ lastOp' = Did("other", 0)
  /\ UNCHANGED <<appVars, exportVars, exporters, ffmpeg, libReady, calls, xid, xload, polls>>
  /\ UNCHANGED <<yid, yload, ypolls, histVars, progVars, waveVars, moreVars>>

\* the overlapping call stages its inputs; it is not followed further
OtherStage ==
  /\ ypc = "stage"
  /\ ypc' = "end"
  /\ IF EngineOK
     THEN /\ engines' = [engines EXCEPT ![ffmpeg].fs =
                           Write(@, {File("input.mp4"), File("voice.m4a")}, yid)]
          /\ UNCHANGED coldCall
     ELSE /\ coldCall' = TRUE
          /\ UNCHANGED engines
  /\ lastOp' = Did("other", 0)
  /\ UNCHANGED <<appVars, exportVars, exporters, ffmpeg, libReady, calls, xid, xload, polls>>
  /\ UNCHANGED <<yid, yload, ypolls, xfailed, downloaded, pauses0, progVars, waveVars, moreVars>>

\* the pause lists of these exports: none, or one pause at 13.3 ms
CallPauses ==
  {<<>>, <<[startVideoTime |-> 13 * Ms + 1, pauseDuration |-> MinPause,
            frameDataURL |-> FrameOf(1, 13 * Ms + 1)]>>}

\* a narration is recorded and a video loaded; the library is present or
\* still loading
InitExporter ==
  /\ audioPCM = NoPCM /\ audioBlob = "blob" /\ isRecording = FALSE
  /\ trimRange = DefaultRange /\ undoStack = <<>> /\ redoStack = <<>>
  /\ pauses \in CallPauses
  /\ lastPause = NoPause /\ pauseStartAt = 0 /\ lpCommits = 0
  /\ startPending = 0 /\ stopPending = 0 /\ decoding = 0 /\ loading = 0
  /\ vSrc = 1 /\ vPaused = TRUE /\ vTime = 0 /\ evq = <<>>
  /\ now = 5
  /\ lastOp = Did("init", 0)
  /\ xpc = "idle" /\ xi = 1 /\ last = 0 /\ segIndex = 0
  /\ concatList = <<>> /\ runs = <<>> /\ inputDur = VideoDur
  /\ SideInit /\ libReady \in BOOLEAN

\* the one Exporter of these calls is created by the first export
FirstExport == exporters = 0 /\ ExportBegin

NextExporter ==
  \/ LibArrives
  \/ FirstExport \/ EnginePoll \/ EngineLoaded \/ EngineLoadFail
  \/ StageInputs \/ SweepStep \/ SweepTail
  \/ ExportConcat \/ ExportVoice \/ ExportMux \/ ExportFinish
  \/ ExportFail \/ ExportCold \/ ExportCatch
  \/ ExportAgain \/ ExportOverlap
  \/ OtherPoll \/ OtherLoaded \/ OtherLoadFail \/ OtherStage

SpecExporter == InitExporter /\ [][NextExporter]_vars

(******************************* progress **********************************)
\* the characters of a status message: a blank, three digits, the percent sign
Chars == {" ", "0", "1", "9", "%"}
Digits == {"0", "1", "9"}
DigitVal(c) == CASE c = "0" -> 0 [] c = "1" -> 1 [] c = "9" -> 9
Messages == SeqsUpTo(Chars, MaxMsg)

\* Number(match[1])
RECURSIVE NumberOf(_)
NumberOf(ds) == IF ds = <<>> THEN 0 ELSE 10 * NumberOf(Front(ds)) + DigitVal(Last(ds))

\* /\s(\d{1,3})%/ matches at position i with k digits
MatchAt(m, i, k) ==
  /\ i + k + 1 <= Len(m)
  /\ m[i] = " "
  /\ \A j \in 1..k : m[i + j] \in Digits
  /\ m[i + k + 1] = "%"
Matches(m) == {<<i, k>> \in (1..Len(m)) \X (1..3) : MatchAt(m, i, k)}

\* const match = m.match(/\s(\d{1,3})%/): the leftmost match; the number
\* passed to onProgress, or -1 when there is no match and no call
Logger(m) ==
  IF Matches(m) = {} THEN -1
  ELSE LET ik == CHOOSE p \in Matches(m) : \A q \in Matches(m) : p[1] <= q[1]
       IN  NumberOf(SubSeq(m, ik[1] + 1, ik[1] + ik[2]))

\* the messages that follow: none at all, an empty one, one without a
\* percentage, a low and a high percentage
Followups == {<<>>, << <<>> >>, << <<"9">> >>, << <<" ", "1", "%">> >>, << <<" ", "9", "9", "%">> >>}

\* const m = String(message || '')
Text(message) == IF message = <<>> THEN <<>> ELSE message[1]

\* a logger that holds back a value not above the one before
Forward_rising(log, n) ==
  IF n = -1 \/ (log # <<>> /\ n <= Last(log)) THEN log ELSE Append(log, n)

\* if (match) this.onProgress(Number(match[1]))
Forward(log, n) == IF n = -1 THEN log ELSE Append(log, n)

\* the message the engine emits next
Emitted == IF logged = 0 THEN msg ELSE Text(later)

\* the engine emits its next status message: logger({ message })
EngineLog ==
  /\ engines # <<>>
  /\ logged < 2
  /\ progress' = Logger(Emitted)
  /\ progLog' = Forward(progLog, Logger(Emitted))
  /\ logged' = logged + 1
  /\ lastOp' = Did("other", 0)
  /\ UNCHANGED <<appVars, exportVars, instVars, otherCallVars, histVars, msg, later, waveVars, moreVars>>

\* an export is about to start; msg is the status message its engine will emit
InitProgress ==
  /\ audioPCM = NoPCM /\ audioBlob = "blob" /\ isRecording = FALSE
  /\ trimRange = DefaultRange /\ undoStack = <<>> /\ redoStack = <<>>
  /\ pauses = <<>> /\ lastPause = NoPause /\ pauseStartAt = 0 /\ lpCommits = 0
  /\ startPending = 0 /\ stopPending = 0 /\ decoding = 0 /\ loading = 0
  /\ vSrc = 1 /\ vPaused = TRUE /\ vTime = 0 /\ evq = <<>>
  /\ now = 5
  /\ lastOp = Did("init", 0)
  /\ xpc = "idle" /\ xi = 1 /\ last = 0 /\ segIndex = 0
  /\ concatList = <<>> /\ runs = <<>> /\ inputDur = VideoDur
  /\ InstInit /\ libReady = TRUE
  /\ msg \in Messages /\ progress = -1
  /\ later \in Followups /\ logged = 0 /\ progLog = <<>>
  /\ wWidth = 0 /\ wPCM = <<>> /\ columns = <<>>

\* an export as far as the loaded engine, and the message of that engine
NextProgress == FirstExport \/ EngineLoaded \/ EngineLog

SpecProgress == InitProgress /\ [][NextProgress]_vars

(******************************* recorder **********************************)
\* let mediaRecorder: the recorder created last (0: null)
mediaRecorder == Len(sent)

\* the non-empty chunks session r's recorder has delivered, in delivery order
Delivered(r) == [k \in 1..sent[r] |-> <<r, k>>]

\* ondataavailable of session r: if (e.data.size) audioChunks.push(e.data)
Push(chunks, r, size) == IF size > 0 THEN Append(chunks, <<r, sent[r] + 1>>) ELSE chunks
Count(r, size) == IF size > 0 THEN [sent EXCEPT ![r] = @ + 1] ELSE sent

\* startRecBtn click with the recorders and the text of the button:
\* stopRecording() calls
\* mediaRecorder.stop(), which queues the recorder's stop task;
\* startRecording() runs up to its await of getUserMedia
RecToggle ==
  /\ IF isRecording
     THEN /\ stopPending < MaxPending
          /\ stopPending' = stopPending + 1
          /\ isRecording' = FALSE
          /\ IF mediaRecorder \in live
             THEN stopping' = Append(stopping, mediaRecorder) /\ live' = live \ {mediaRecorder}
             ELSE UNCHANGED <<stopping, live>>
          /\ recLabel' = "start"
          /\ UNCHANGED startPending
     ELSE /\ startPending < MaxStarts
          /\ startPending' = startPending + 1
          /\ recLabel' = "stop"
          /\ UNCHANGED <<isRecording, stopPending, stopping, live>>
  /\ lastOp' = Did("other", 0)
  /\ UNCHANGED <<trimVars, videoVars, ledgerVars, now, audioPCM, audioBlob, decoding>>
  /\ UNCHANGED <<exportVars, instVars, otherCallVars, histVars, progVars, waveVars, accVars, jobVars, cutVars>>
  /\ UNCHANGED <<audioChunks, sent, blobParts, blobBy, ledgerAt>>

\* startRecording after getUserMedia resolved: mediaRecorder = new
\* MediaRecorder(...); audioChunks.length = 0; the handlers are set;
\* mediaRecorder.start(100); isRecording = true; await videoEl.play()
RecorderStart ==
  /\ startPending > 0
  /\ Len(sent) < MaxSessions
  /\ Len(PlayQ) <= MaxEvq
  /\ startPending' = startPending - 1
  /\ sent' = Append(sent, 0)
  /\ live' = live \cup {Len(sent) + 1}
  /\ ledgerAt' = Append(ledgerAt, Len(pauses))
  /\ audioChunks' = <<>>
  /\ isRecording' = TRUE
  /\ vPaused' = FALSE /\ evq' = PlayQ /\ vTime' = PlayT
  /\ lastOp' = Did("other", 0)
  /\ UNCHANGED <<trimVars, ledgerVars, now, audioPCM, audioBlob, stopPending, decoding, vSrc, loading>>
  /\ UNCHANGED <<exportVars, instVars, otherCallVars, histVars, progVars, waveVars, accVars, jobVars, cutVars>>
  /\ UNCHANGED <<stopping, blobParts, blobBy, recLabel>>

\* a recording recorder delivers the data of a time slice (start(100))
DataAvailable(r, size) ==
  /\ r \in live
  /\ sent[r] < MaxChunks
  /\ audioChunks' = Push(audioChunks, r, size)
  /\ sent' = Count(r, size)
  /\ lastOp' = Did("other", 0)
  /\ UNCHANGED <<appVars, exportVars, instVars, otherCallVars, histVars, progVars, waveVars, accVars, jobVars, cutVars>>
  /\ UNCHANGED <<live, stopping, blobParts, blobBy, recLabel, ledgerAt>>

\* the stop task of the recorder stopped first: it delivers the data
\* gathered last (dataavailable), then onstop runs up to its first await:
\* audioBlob = new Blob(audioChunks)
RecorderStop(size) ==
  /\ stopping # <<>>
  /\ decoding < MaxPending
  /\ LET r == Head(stopping) IN
       /\ sent[r] < MaxChunks \/ size = 0
       /\ audioChunks' = Push(audioChunks, r, size)
       /\ sent' = Count(r, size)
       /\ blobBy' = r
  /\ blobParts' = audioChunks'
  /\ stopping' = Tail(stopping)
  /\ stopPending' = stopPending - 1
  /\ decoding' = decoding + 1
  /\ audioBlob' = "blob"
  /\ lastOp' = Did("stop", 0)
  /\ UNCHANGED <<trimVars, videoVars, ledgerVars, now, audioPCM, isRecording, startPending>>
  /\ UNCHANGED <<exportVars, instVars, otherCallVars, histVars, progVars, waveVars, accVars, jobVars, cutVars>>
  /\ UNCHANGED <<live, recLabel, ledgerAt>>

\* the page as loaded, with a video
InitRecorder == Init

NextRecorder ==
  \/ RecToggle
  \/ RecorderStart
  \/ \E r \in 1..MaxSessions, size \in 0..1 : DataAvailable(r, size)
  \/ \E size \in 0..1 : RecorderStop(size)
  \/ StartFail
  \/ DecodeFail
  \/ MediaEvent

SpecRecorder == InitRecorder /\ [][NextRecorder]_vars

\* the capture sessions with the pause ledger, the video file and doExport's
\* hand-over of pauses to the exporter
NextSessions ==
  \/ RecToggle
  \/ RecorderStart
  \/ \E size \in 0..1 : RecorderStop(size)
  \/ TogglePause
  \/ MediaEvent
  \/ LoadVideoBegin \/ LoadVideoResume
  \/ ExportBegin

SpecSessions == InitRecorder /\ [][NextSessions]_vars

\* a take has been recorded and decoded: the narration blob and its samples
InitCut ==
  /\ audioPCM \in {SomePCM(pcm) : pcm \in PCMs} /\ audioBlob = "blob" /\ isRecording = FALSE
  /\ trimRange = DefaultRange /\ undoStack = <<>> /\ redoStack = <<>>
  /\ pauses = <<>> /\ lastPause = NoPause /\ pauseStartAt = 0 /\ lpCommits = 0
  /\ startPending = 0 /\ stopPending = 0 /\ decoding = 0 /\ loading = 0
  /\ vSrc = 1 /\ vPaused = TRUE /\ vTime = 0 /\ evq = <<>>
  /\ now = 5
  /\ lastOp = Did("init", 0)
  /\ xpc = "idle" /\ xi = 1 /\ last = 0 /\ segIndex = 0
  /\ concatList = <<>> /\ runs = <<>> /\ inputDur = VideoDur
  /\ SideInit /\ libReady = TRUE

\* the trim buttons clicked while exports run
NextCut ==
  \/ TrimSilence \/ Undo \/ Redo
  \/ ExportBegin \/ EngineLoaded \/ StageInputs \/ SweepTail
  \/ ExportConcat \/ ExportVoice \/ ExportMux \/ ExportFinish

SpecCut == InitCut /\ [][NextCut]_vars

(************************* exports side by side ****************************)
\* the invocations of an export without pauses: tail, concat, voice, mux
Invocations == 4

\* one Exporter, and so one engine, for every call
EngineFor_shared(fresh) == 1

\* const exporter = new Exporter(...) in doExport, and createFFmpeg in its
\* ensureFFmpeg: every call has the engine created for it
EngineFor(fresh) == fresh

\* exportBtn click (also the E key) with a narration recorded: doExport does
\* not look whether an earlier call is still running
DoExport(p) ==
  /\ jpc[p] = "idle"
  /\ Len(busy) < MaxEngines
  /\ busy' = Append(busy, 0)
  /\ jeng' = [jeng EXCEPT ![p] = EngineFor(Len(busy) + 1)]
  /\ jpc' = [jpc EXCEPT ![p] = "load"]
  /\ jrun' = [jrun EXCEPT ![p] = 0]
  /\ lastOp' = Did("export", 0)
  /\ UNCHANGED <<appVars, exportVars, instVars, otherCallVars, histVars, progVars, waveVars, accVars, recVars, cutVars>>
  /\ UNCHANGED clash

\* await this.ffmpeg.load() resolves and the inputs are staged
JobLoaded(p) ==
  /\ jpc[p] = "load"
  /\ jpc' = [jpc EXCEPT ![p] = "ready"]
  /\ lastOp' = Did("other", 0)
  /\ UNCHANGED <<appVars, exportVars, instVars, otherCallVars, histVars, progVars, waveVars, accVars, recVars, cutVars>>
  /\ UNCHANGED <<jrun, jeng, busy, clash>>

\* the call issues its next invocation: this.ffmpeg.run(...)
Invoke(p) ==
  /\ jpc[p] = "ready"
  /\ clash' = (clash \/ busy[jeng[p]] > 0)
  /\ busy' = [busy EXCEPT ![jeng[p]] = @ + 1]
  /\ jpc' = [jpc EXCEPT ![p] = "running"]
  /\ lastOp' = Did("other", 0)
  /\ UNCHANGED <<appVars, exportVars, instVars, otherCallVars, histVars, progVars, waveVars, accVars, recVars, cutVars>>
  /\ UNCHANGED <<jrun, jeng>>

\* the invocation completes and its await resumes the call
Complete(p) ==
  /\ jpc[p] = "running"
  /\ busy' = [busy EXCEPT ![jeng[p]] = @ - 1]
  /\ jrun' = [jrun EXCEPT ![p] = @ + 1]
  /\ jpc' = [jpc EXCEPT ![p] = IF jrun[p] + 1 = Invocations THEN "done" ELSE "ready"]
  /\ lastOp' = Did("other", 0)
  /\ UNCHANGED <<appVars, exportVars, instVars, otherCallVars, histVars, progVars, waveVars, accVars, recVars, cutVars>>
  /\ UNCHANGED <<jeng, clash>>

\* the load or the invocation is rejected: export() throws
Reject(p) ==
  /\ jpc[p] \in {"load", "running"}
  /\ busy' = IF jpc[p] = "running" THEN [busy EXCEPT ![jeng[p]] = @ - 1] ELSE busy
  /\ jpc' = [jpc EXCEPT ![p] = "failed"]
  /\ lastOp' = Did("other", 0)
  /\ UNCHANGED <<appVars, exportVars, instVars, otherCallVars, histVars, progVars, waveVars, accVars, recVars, cutVars>>
  /\ UNCHANGED <<jrun, jeng, clash>>

\* doExport ends: the download after export() returned, or its catch
JobEnd(p) ==
  /\ jpc[p] \in {"done", "failed"}
  /\ jpc' = [jpc EXCEPT ![p] = "idle"]
  /\ lastOp' = Did("other", 0)
  /\ UNCHANGED <<appVars, exportVars, instVars, otherCallVars, histVars, progVars, waveVars, accVars, recVars, cutVars>>
  /\ UNCHANGED <<jrun, jeng, busy, clash>>

\* a narration is recorded and a video loaded
InitJobs == InitExporter /\ libReady = TRUE /\ pauses = <<>>

NextJobs ==
  \E p \in 1..MaxJobs :
    DoExport(p) \/ JobLoaded(p) \/ Invoke(p) \/ Complete(p) \/ Reject(p) \/ JobEnd(p)

SpecJobs == InitJobs /\ [][NextJobs]_vars

(***************************** pause test **********************************)
\* type PauseEvent = { start: number; end: number }, in tenths of a second
PauseEvent == [start : 0..MaxT, end : 0..MaxT]

\* the events of the test: { start: 12.0, end: 15.3 }, { start: 47.1, end: 48.0 }
TestEvents == <<[start |-> 120, end |-> 153], [start |-> 471, end |-> 480]>>

\* an accumulation that lets a reversed event count negatively
Term_signed(e) == e.end - e.start

\* Math.max(0, e.end - e.start)
Term(e) == Max(0, e.end - e.start)

\* events.reduce((acc, e) => acc + Math.max(0, e.end - e.start), 0)
RECURSIVE Reduce(_, _)
Reduce(es, a) == IF es = <<>> THEN a ELSE Reduce(Tail(es), a + Term(Head(es)))
accumulatePauses(es) == Reduce(es, 0)

\* const total = accumulatePauses(events)
Accumulate ==
  /\ accTotal = -1
  /\ accTotal' = accumulatePauses(accEvents)
  /\ lastOp' = Did("accumulate", 0)
  /\ UNCHANGED <<appVars, exportVars, instVars, otherCallVars, histVars, progVars, waveVars, recVars, jobVars, cutVars, accEvents>>

\* the test is run again on the same events
AccumulateAgain ==
  /\ accTotal # -1
  /\ accTotal' = -1
  /\ lastOp' = Did("other", 0)
  /\ UNCHANGED <<appVars, exportVars, instVars, otherCallVars, histVars, progVars, waveVars, recVars, jobVars, cutVars, accEvents>>

\* the test file with some list of events, among them its own
InitAccumulate ==
  /\ audioPCM = NoPCM /\ audioBlob = Null /\ isRecording = FALSE
  /\ trimRange = DefaultRange /\ undoStack = <<>> /\ redoStack = <<>>
  /\ pauses = <<>> /\ lastPause = NoPause /\ pauseStartAt = 0 /\ lpCommits = 0
  /\ startPending = 0 /\ stopPending = 0 /\ decoding = 0 /\ loading = 0
  /\ vSrc = 0 /\ vPaused = TRUE /\ vTime = 0 /\ evq = <<>>
  /\ now = 5
  /\ lastOp = Did("init", 0)
  /\ xpc = "idle" /\ xi = 1 /\ last = 0 /\ segIndex = 0
  /\ concatList = <<>> /\ runs = <<>> /\ inputDur = VideoDur
  /\ exporters = 0 /\ ffmpeg = 0 /\ engines = <<>> /\ calls = 0
  /\ xid = 0 /\ xload = 0 /\ polls = 0
  /\ ypc = "idle" /\ yid = 0 /\ yload = 0 /\ ypolls = 0
  /\ xfailed = FALSE /\ downloaded = FALSE /\ pauses0 = <<>> /\ coldCall = FALSE
  /\ libReady = FALSE
  /\ msg = <<>> /\ progress = -1 /\ NoLater
  /\ wWidth = 0 /\ wPCM = <<>> /\ columns = <<>>
  /\ accEvents \in SeqsUpTo(PauseEvent, MaxAcc) \cup {TestEvents}
  /\ accTotal = -1
  /\ RecInit /\ JobInit /\ CutInit

NextAccumulate == Accumulate \/ AccumulateAgain

SpecAccumulate == InitAccumulate /\ [][NextAccumulate]_vars

(******************************* waveform **********************************)
\* amplitudes of the samples, in hundredths
Amps == {-100, 0, 50}

\* the Float32Array handed to drawFromPCM
Buffers == SeqsUpTo(Amps, MaxWave)

Least(S) == CHOOSE v \in S : \A w \in S : v <= w
Greatest(S) == CHOOSE v \in S : \A w \in S : v >= w

\* const step = Math.max(1, Math.floor(float32.length / width));
Step(pcm, width) == Max(1, Len(pcm) \div width)

\* the samples float32[start + i] read for column x (from 0):
\* i < step && start + i < float32.length, with start = x * step
Window(pcm, x, step) ==
  {pcm[x * step + i + 1] : i \in {j \in 0..(step - 1) : x * step + j < Len(pcm)}}

\* let min = 1, max = -1; if (v < min) min = v; if (v > max) max = v;
Column(pcm, x, step) ==
  <<Least(Window(pcm, x, step) \cup {100}), Greatest(Window(pcm, x, step) \cup {-100})>>

\* a sampler that stops at the end of the buffer
ColumnCount_samples(pcm, width) == IF Len(pcm) < width THEN Len(pcm) ELSE width

\* for (let x = 0; x < width; x++)
ColumnCount(pcm, width) == width

\* the (min, max) pairs of the columns drawn; with width 0 the loop body
\* never runs
Sample(pcm, width) ==
  IF width = 0 THEN <<>>
  ELSE [x \in 1..ColumnCount(pcm, width) |-> Column(pcm, x - 1, Step(pcm, width))]

\* waveform.drawFromPCM(float32)
DrawFromPCM(pcm) ==
  /\ wPCM' = pcm
  /\ columns' = Sample(pcm, wWidth)
  /\ lastOp' = Did("draw", 0)
  /\ UNCHANGED <<appVars, exportVars, instVars, otherCallVars, histVars, progVars, moreVars, wWidth>>

\* resize(): this.width = Math.floor(clientWidth * pixelRatio); this.clear()
Resize(w) ==
  /\ wWidth' = w
  /\ columns' = <<>>
  /\ lastOp' = Did("resize", 0)
  /\ UNCHANGED <<appVars, exportVars, instVars, otherCallVars, histVars, progVars, moreVars, wPCM>>

\* new Waveform(canvas): the constructor has measured the canvas
InitWave ==
  /\ audioPCM = NoPCM /\ audioBlob = Null /\ isRecording = FALSE
  /\ trimRange = DefaultRange /\ undoStack = <<>> /\ redoStack = <<>>
  /\ pauses = <<>> /\ lastPause = NoPause /\ pauseStartAt = 0 /\ lpCommits = 0
  /\ startPending = 0 /\ stopPending = 0 /\ decoding = 0 /\ loading = 0
  /\ vSrc = 0 /\ vPaused = TRUE /\ vTime = 0 /\ evq = <<>>
  /\ now = 5
  /\ lastOp = Did("init", 0)
  /\ xpc = "idle" /\ xi = 1 /\ last = 0 /\ segIndex = 0
  /\ concatList = <<>> /\ runs = <<>> /\ inputDur = VideoDur
  /\ InstInit /\ libReady = FALSE
  /\ msg = <<>> /\ progress = -1 /\ NoLater
  /\ wWidth \in 0..MaxWidth /\ wPCM = <<>> /\ columns = <<>>

NextWave ==
  \/ \E pcm \in Buffers : DrawFromPCM(pcm)
  \/ \E w \in 0..MaxWidth : Resize(w)

SpecWave == InitWave /\ [][NextWave]_vars

(***************************************************************************)
(* Trim history as a linear list with a position pointer: the undo stack   *)
(* is the part of the list up to the pointer, the redo stack, top first,   *)
(* the part after it.                                                      *)
(***************************************************************************)
Reverse(s) == [i \in 1..Len(s) |-> s[Len(s) + 1 - i]]
Hist == undoStack \o Reverse(redoStack)
Ptr == Len(undoStack)

\* C3: every trim, undo and redo is the step of a linear history (Hist, Ptr)
\* with the current range trimRange: a trim truncates the list after the
\* pointer and appends {from: current, to: new}; undo moves the pointer back
\* one and restores that item's from; redo moves it forward one and restores
\* that item's to; at either end of the list the pointer and the range stay;
\* no other handler touches the history.
C3_LinearHistory ==
  [][ /\ (lastOp'.op = "trim" /\ audioPCM # NoPCM) =>
           /\ Hist' = Append(SubSeq(Hist, 1, Ptr), [from |-> trimRange, to |-> trimRange'])
           /\ Ptr' = Ptr + 1
      /\ (lastOp'.op = "trim" /\ audioPCM = NoPCM) => UNCHANGED <<Hist, Ptr, trimRange>>
      /\ lastOp'.op = "undo" =>
           IF Ptr > 0
           THEN Hist' = Hist /\ Ptr' = Ptr - 1 /\ trimRange' = Hist[Ptr].from
           ELSE UNCHANGED <<Hist, Ptr, trimRange>>
      /\ lastOp'.op = "redo" =>
           IF Ptr < Len(Hist)
           THEN Hist' = Hist /\ Ptr' = Ptr + 1 /\ trimRange' = Hist[Ptr + 1].to
           ELSE UNCHANGED <<Hist, Ptr, trimRange>>
      /\ lastOp'.op \notin {"trim", "undo", "redo"} => UNCHANGED <<Hist, Ptr, trimRange>>
    ]_vars

\* a redo has just restored the first of two different trims, the second
\* still waiting on the redo stack
C3_Witness ==
  /\ lastOp.op = "redo" /\ Len(undoStack) = 1 /\ Len(redoStack) = 1
  /\ trimRange = undoStack[1].to /\ undoStack[1].to # undoStack[1].from
  /\ redoStack[1].to # redoStack[1].from

\* C4: a trim that acts (a PCM buffer exists) leaves the redo stack empty and
\* pushes exactly the item {from: previous range, to: new range} onto the
\* undo stack.
C4_TrimClearsRedo ==
  [][ (lastOp'.op = "trim" /\ audioPCM # NoPCM) =>
        /\ redoStack' = <<>>
        /\ undoStack' = Append(undoStack, [from |-> trimRange, to |-> trimRange'])
    ]_vars

\* a trim has just run after an undo and discarded the pending redo entry
C4_Witness ==
  /\ lastOp.op = "trim" /\ lastOp.dropped > 0
  /\ redoStack = <<>> /\ undoStack # <<>>

\* C5: undo with an empty undo stack and redo with an empty redo stack change
\* neither trimRange nor either stack.
C5_EmptyUndoRedoNoop ==
  [][ ((lastOp'.op = "undo" /\ undoStack = <<>>) \/ (lastOp'.op = "redo" /\ redoStack = <<>>))
        => UNCHANGED <<trimRange, undoStack, redoStack>>
    ]_vars

\* an undo has just run on an empty undo stack (an undo that pops an item
\* leaves it on the redo stack) after a trim had been undone and redone
C5_Witness ==
  /\ lastOp.op = "undo" /\ undoStack = <<>> /\ redoStack = <<>>
  /\ audioPCM # NoPCM

\* C6: in every reachable state 0 <= start <= end <= 1 and the range is
\* non-empty (start < end).
C6_TrimRangeValid ==
  /\ Leq(<<0, 1>>, trimRange.start)
  /\ Leq(trimRange.start, trimRange.end)
  /\ Leq(trimRange.end, <<1, 1>>)
  /\ Lt(trimRange.start, trimRange.end)

(***************************************************************************)
(* The pause ledger.                                                       *)
(***************************************************************************)
PauseEnd(e) == e.startVideoTime + e.pauseDuration

\* C7: the startVideoTime values of the committed pause events are
\* non-decreasing in list order.
C7_StartsNonDecreasing ==
  \A i \in 1..(Len(pauses) - 1) : pauses[i].startVideoTime <= pauses[i + 1].startVideoTime

\* C8: no two committed pause events have overlapping ranges
\* [startVideoTime, startVideoTime + pauseDuration).
C8_NoOverlap ==
  \A i, j \in 1..Len(pauses) :
    i < j => (PauseEnd(pauses[i]) <= pauses[j].startVideoTime
              \/ PauseEnd(pauses[j]) <= pauses[i].startVideoTime)

\* C9: at most one candidate is open and every candidate captured by a pause
\* is committed at most once, however the video came to be paused.
C9_CommittedAtMostOnce ==
  /\ Len(lastPause) <= 1
  /\ lpCommits <= 1

\* C10: the committed list is append-only: every step leaves it unchanged or
\* appends exactly one event at its end.
C10_AppendOnly ==
  [][ \/ pauses' = pauses
      \/ (Len(pauses') = Len(pauses) + 1 /\ SubSeq(pauses', 1, Len(pauses)) = pauses)
    ]_vars

\* a second event has just been committed, after a video was loaded and the
\* first event was committed
C10_Witness ==
  /\ lastOp.op = "toggle" /\ Len(pauses) = 2 /\ vSrc > 0 /\ ~vPaused
  /\ pauses[1] # pauses[2]

\* C11: every committed pause event has pauseDuration >= 0.01 s, hence > 0,
\* in whatever order the toggle calls and the element's pause / play events
\* are processed.
C11_DurationFloor ==
  \A i \in 1..Len(pauses) :
    pauses[i].pauseDuration >= MinPause /\ pauses[i].pauseDuration > 0

\* a resume has just committed an event while the "pause" event of its pause
\* was still queued, so before the pause-start timestamp was recorded
C11_Witness ==
  /\ lastOp.op = "toggle" /\ pauses # <<>> /\ lpCommits = 1
  /\ evq = <<"pause", "play">>
  /\ Last(pauses).pauseDuration = MinPause

(***************************************************************************)
(* The export sweep.                                                       *)
(***************************************************************************)
SweepDone == xpc \in {"concat", "voice", "mux", "done"}

RangesDisjoint(ps) ==
  \A i, j \in 1..Len(ps) :
    i < j => (PauseEnd(ps[i]) <= ps[j].startVideoTime \/ PauseEnd(ps[j]) <= ps[i].startVideoTime)
StartsSorted(ps) ==
  \A i \in 1..(Len(ps) - 1) : ps[i].startVideoTime <= ps[i + 1].startVideoTime
\* totalDuration >= the end of the last pause, in list order or in time
HoldsPauses(ps, total) == \A i \in 1..Len(ps) : PauseEnd(ps[i]) <= total

\* the positions in runs of the real segments, the tail included, and the
\* stretch of input.mp4 each one copies
RealIdx == {i \in 1..Len(runs) : runs[i].kind \in {"real", "tail"}}
SegStart(i) == Val(runs[i].ss)
SegEnd(i) == IF runs[i].kind = "tail" THEN inputDur ELSE Val(runs[i].to)
FreezesIn(a, b) == Cardinality({i \in (a + 1)..(b - 1) : runs[i].kind = "freeze"})
PrevReal(b) == {a \in RealIdx : a < b /\ \A c \in RealIdx : c < b => c <= a}

\* the real segments cover [0, inputDur): the first starts at 0, each next one
\* starts where the one before it ended, none is reversed, and the last is
\* the tail, which runs to the end; where the guard elided a segment between
\* two pauses the cover may lack that stretch, of at most Eps per elision
Covers ==
  /\ RealIdx # {}
  /\ \A b \in RealIdx :
       /\ SegStart(b) <= SegEnd(b)
       /\ IF PrevReal(b) = {}
          THEN SegStart(b) <= Eps * FreezesIn(0, b)
          ELSE \A a \in PrevReal(b) :
                 /\ SegEnd(a) <= SegStart(b)
                 /\ SegStart(b) - SegEnd(a) <= Eps * (FreezesIn(a, b) - 1)
       /\ (\A c \in RealIdx : c <= b) => runs[b].kind = "tail"

\* C1 (as stated): for every pause list with disjoint ranges and every video
\* that holds the pauses, the real segments of the finished sweep cover
\* [0, totalDuration) exactly, up to the segments elided by the guard.
C1_CoversDisjoint ==
  (SweepDone /\ RangesDisjoint(pauses) /\ HoldsPauses(pauses, inputDur)) => Covers

\* C1 (amended): the same for every pause list with disjoint ranges whose
\* startVideoTime values are non-decreasing in list order.
C1_CoversSortedDisjoint ==
  (SweepDone /\ StartsSorted(pauses) /\ RangesDisjoint(pauses)
     /\ HoldsPauses(pauses, inputDur)) => Covers

\* a finished sweep of two sorted, disjoint pauses that cut the video into
\* three real segments
C1_Witness ==
  /\ SweepDone /\ Len(pauses) = 2
  /\ StartsSorted(pauses) /\ RangesDisjoint(pauses) /\ HoldsPauses(pauses, inputDur)
  /\ Cardinality(RealIdx) = 3

Freezes == SelectSeq(runs, LAMBDA r : r.kind = "freeze")
Dist(a, b) == IF a >= b THEN a - b ELSE b - a

\* C2 (as stated): for every pause list the finished plan holds one freeze
\* per pause, in the order of the pauses, the i-th carrying the i-th pause's
\* still frame and its pauseDuration unchanged.
C2_FreezeVerbatim ==
  SweepDone =>
    /\ Len(Freezes) = Len(pauses)
    /\ \A i \in 1..Len(pauses) :
         /\ Freezes[i].frame = pauses[i].frameDataURL
         /\ Val(Freezes[i].t) = pauses[i].pauseDuration

\* C2 (amended): one freeze per pause, in order, the i-th carrying the i-th
\* pause's still frame unchanged and its pauseDuration rounded to the nearest
\* millisecond.
C2_FreezeRounded ==
  SweepDone =>
    /\ Len(Freezes) = Len(pauses)
    /\ \A i \in 1..Len(pauses) :
         /\ Freezes[i].frame = pauses[i].frameDataURL
         /\ 2 * Dist(Val(Freezes[i].t), pauses[i].pauseDuration) <= Ms

\* a finished sweep of two pauses in reversed order with different frames,
\* one lasting a third of a millisecond more than 10 ms
C2_Witness ==
  /\ SweepDone /\ Len(pauses) = 2 /\ Len(Freezes) = 2
  /\ pauses[1].startVideoTime > pauses[2].startVideoTime
  /\ pauses[1].frameDataURL # pauses[2].frameDataURL
  /\ pauses[1].pauseDuration = MinPause + 1
  /\ pauses[2].pauseDuration = MinPause + Ms - 1

(***************************************************************************)
(* Exports of the program.                                                 *)
(***************************************************************************)
ExportRunning == xpc # "idle"

\* C12: while an export is in progress the pause list is the one the export
\* was invoked with: no event is appended between its start and its
\* completion or failure.
C12_LedgerFrozen == ExportRunning => pauses = pauses0

\* C13: an export attempted with no narration recorded ends at once: no
\* Exporter is created, no engine acquired or loaded, nothing staged or run.
C13_NoNarrationNoEngine ==
  [][ (lastOp'.op = "export" /\ audioBlob = Null) =>
        /\ UNCHANGED <<exporters, ffmpeg, engines, calls, xpc, runs>>
        /\ UNCHANGED <<appVars, downloaded>>
    ]_vars

\* an export was just refused for want of a narration, with the library
\* present, so that an engine could have been created
C13_Witness ==
  /\ lastOp.op = "export" /\ audioBlob = Null /\ xpc = "idle"
  /\ exporters = 0 /\ engines = <<>> /\ libReady

\* C14: once a staging step or an engine invocation of an export has failed,
\* that export issues no further invocation, stages nothing more, returns no
\* artifact and triggers no download; only the caller can begin a new export.
C14_FailureIsFinal ==
  [][ (xfailed /\ lastOp'.op # "export") =>
        /\ UNCHANGED <<runs, engines, downloaded, xfailed>>
        /\ xpc' \in {"failed", "idle"}
    ]_vars

\* an export has failed in the middle of its sweep, after invocations that
\* succeeded, and doExport has caught the failure
C14_Witness ==
  /\ xfailed /\ xpc = "idle" /\ ~downloaded
  /\ runs # <<>> /\ Len(runs) < 2 * Len(pauses) + 4
  /\ Storage # {}

(***************************************************************************)
(* One Exporter instance, its engine and its working storage.              *)
(***************************************************************************)
\* C15: no staging call and no invocation is issued to an engine whose
\* load() has not completed successfully, also by an export on an instance
\* whose earlier initialization failed.
C15_InitializedBeforeUse == ~coldCall

C17_NoLeak ==
  xpc \in {"poll", "load", "stage"} => \A f \in Storage : f.by >= xid

\* C18: every value passed to onProgress is a percentage in 0..100, whatever
\* status message the engine emits.
C18_ProgressInRange == progress # -1 => progress \in 0..100

\* the samples of the drawn buffer that fall into column x (from 1)
Drawn(x) == Window(wPCM, x - 1, Step(wPCM, wWidth))

\* C19: a draw produces exactly width (min, max) pairs, one per column,
\* whatever the length of the buffer: empty, shorter than the width, equal
\* to it or longer
C19_WidthColumns ==
  lastOp.op = "draw" =>
    /\ Len(columns) = wWidth
    /\ \A x \in 1..Len(columns) : Len(columns[x]) = 2

\* a buffer with samples, but fewer than columns, has been drawn
C19_Witness ==
  /\ lastOp.op = "draw"
  /\ 0 < Len(wPCM) /\ Len(wPCM) < wWidth
  /\ Len(columns) = wWidth

\* C20: a column whose window holds no sample, and so every column of an
\* empty buffer, is drawn as the pair (0, 0)
C20_EmptyIsZero ==
  lastOp.op = "draw" =>
    \A x \in 1..Len(columns) : Drawn(x) = {} => columns[x] = <<0, 0>>

\* the sum of the positive lengths of the events with the given indices
RECURSIVE PositiveSum(_, _)
PositiveSum(es, I) ==
  IF I = {} THEN 0
  ELSE LET i == CHOOSE j \in I : TRUE
           d == es[i].end - es[i].start
       IN  (IF d > 0 THEN d ELSE 0) + PositiveSum(es, I \ {i})

\* the same events in another order
Reordered(es, f) == [i \in 1..Len(es) |-> es[f[i]]]
Orders(n) == {f \in [1..n -> 1..n] : \A i, j \in 1..n : f[i] = f[j] => i = j}

\* C21: the accumulated pause time is the sum over the events of
\* max(0, end - start): never negative, nothing from an event with
\* end <= start, the same in every order of the events, and 4.2 for the
\* events [12.0, 15.3] and [47.1, 48.0]
C21_PauseSum ==
  accTotal # -1 =>
    /\ accTotal = PositiveSum(accEvents, 1..Len(accEvents))
    /\ accTotal >= 0
    /\ accTotal = accumulatePauses(SelectSeq(accEvents, LAMBDA e : e.end > e.start))
    /\ \A f \in Orders(Len(accEvents)) : accumulatePauses(Reordered(accEvents, f)) = accTotal
    /\ accEvents = TestEvents => accTotal = 42

\* two events have been accumulated, one of them reversed, one of them not
C21_Witness ==
  /\ accTotal > 0
  /\ Len(accEvents) = 2
  /\ accEvents[1].end < accEvents[1].start
  /\ accEvents[2].end > accEvents[2].start

\* C22: the blob assembled when a session is stopped consists of exactly the
\* non-empty chunks that session's recorder delivered, in delivery order,
\* whatever the interleaving of chunk delivery, stop handlers and the start
\* of a following session
C22_BlobIsSession == blobBy # 0 => blobParts = Delivered(blobBy)

\* the cursor when the sweep reaches pause i: the start of the pause before
\* it, 0 for the first
CursorAt(i) == IF i = 1 THEN 0 ELSE pauses[i - 1].startVideoTime

\* pause i lies more than 0.001 s after the cursor
Ahead(i) == pauses[i].startVideoTime - CursorAt(i) > Eps

\* where the freeze of pause i stands in the plan
FreezeAt(i) == i + Cardinality({j \in 1..i : Ahead(j)})

\* the pauses the sweep has passed
Swept == IF xpc = "sweep" THEN 1..(xi - 1)
         ELSE IF xpc \in {"concat", "voice", "mux", "done"} \/ (xpc = "idle" /\ downloaded)
              THEN 1..Len(pauses) ELSE {}

\* C23: for each pause in order, a real segment from the cursor to the
\* pause's start stands immediately before the pause's freeze exactly when
\* the start is more than 0.001 s after the cursor, and the cursor is the
\* pause's start afterwards either way; so every such real segment is longer
\* than 0.001 s and a pause at the cursor has its freeze with no real
\* segment before it
C23_SweepStep ==
  /\ \A i \in Swept :
       /\ FreezeAt(i) <= Len(runs)
       /\ runs[FreezeAt(i)].kind = "freeze"
       /\ runs[FreezeAt(i)].frame = pauses[i].frameDataURL
       /\ Ahead(i) =>
            /\ runs[FreezeAt(i) - 1].kind = "real"
            /\ runs[FreezeAt(i) - 1].ss = fmtTime(CursorAt(i))
            /\ runs[FreezeAt(i) - 1].to = fmtTime(pauses[i].startVideoTime)
            /\ pauses[i].startVideoTime - CursorAt(i) > Eps
       /\ ~Ahead(i) =>
            \/ FreezeAt(i) = 1
            \/ /\ i > 1
               /\ FreezeAt(i) - 1 = FreezeAt(i - 1)
  /\ xpc = "sweep" => last = CursorAt(xi)
  /\ Cardinality({k \in 1..Len(runs) : runs[k].kind = "real"})
       = Cardinality({i \in Swept : Ahead(i)})

\* the sweep has passed a pause within 0.001 s of the cursor, then one ahead
\* of it
C23_Witness ==
  /\ xpc = "concat" /\ Len(pauses) = 2
  /\ ~Ahead(1) /\ pauses[1].startVideoTime > 0
  /\ Ahead(2)

\* the invocations that produce a segment of the plan
Plan == SelectSeq(runs, LAMBDA r : r.kind \in {"real", "freeze", "tail"})

\* the sweep and its tail are over
TailDone == xpc \in {"concat", "voice", "mux", "done"} \/ (xpc = "idle" /\ downloaded)

\* C24: the plan ends with exactly one tail segment, from the start of the
\* last pause (0 without pauses) to the end of the video, emitted whatever
\* its length; without pauses the plan is that segment alone, and for n
\* pauses the plan has between n + 1 and 2n + 1 segments
C24_OneTail ==
  TailDone =>
    /\ Plan # <<>>
    /\ Last(Plan).kind = "tail"
    /\ Cardinality({k \in 1..Len(Plan) : Plan[k].kind = "tail"}) = 1
    /\ Last(Plan).ss = fmtTime(CursorAt(Len(pauses) + 1))
    /\ DOMAIN Last(Plan) = {"kind", "ss", "out"}
    /\ Len(Plan) >= Len(pauses) + 1
    /\ Len(Plan) <= 2 * Len(pauses) + 1
    /\ pauses = <<>> => Plan = <<TailRun(0, 0)>>

\* the tail has been emitted although the last pause is at the end of the
\* video
C24_Witness ==
  /\ TailDone
  /\ pauses # <<>>
  /\ Last(pauses).startVideoTime = inputDur
  /\ Last(Plan).kind = "tail"

\* the file is in the working storage of the export's engine
Staged(name) == \E f \in Storage : f.name = File(name)

\* where an invocation stands in the protocol
Rank(r) == CASE r.kind \in {"real", "freeze"} -> 1 [] r.kind = "tail" -> 2
             [] r.kind = "concat" -> 3 [] r.kind = "voice" -> 4 [] r.kind = "mux" -> 5
Ran(kind) == \E k \in 1..Len(runs) : runs[k].kind = kind

\* C25: in an export the engine is initialized before anything is staged,
\* both inputs are staged before the first invocation, every segment
\* invocation and then the tail come before the concat, the concat before
\* the narration encode, the encode before the mux, and the output is read
\* only after the mux
C25_ProtocolOrder ==
  /\ Storage # {} => EngineOK
  /\ runs # <<>> => Staged("input.mp4") /\ Staged("voice.m4a")
  /\ \A j, k \in 1..Len(runs) : j < k =>
       /\ Rank(runs[j]) <= Rank(runs[k])
       /\ Rank(runs[k]) > 1 => Rank(runs[j]) < Rank(runs[k])
  /\ Ran("tail") =>
       /\ Cardinality({k \in 1..Len(runs) : runs[k].kind = "freeze"}) = xi - 1
       /\ xi - 1 >= Len(pauses0)
  /\ Ran("concat") => Ran("tail") /\ Staged("list.txt")
  /\ Ran("voice") => Ran("concat") /\ Staged("video_full.mp4")
  /\ Ran("mux") => Ran("voice") /\ Staged("voice.aac")
  /\ xpc = "done" \/ downloaded => Last(runs).kind = "mux" /\ Staged("output.mp4")

\* an export with a real segment and a freeze has been downloaded
C25_Witness ==
  /\ downloaded
  /\ Ran("real") /\ Ran("freeze") /\ Ran("mux")

\* the clips the invocations before the k-th have produced, in that order
ProducedBefore(k) == [j \in 1..(k - 1) |-> runs[j].out]

\* C26: the list handed to the concat names exactly the clips produced in
\* this export, each once, in the order they were produced, and each was
\* produced by a completed invocation before the concat runs
C26_ConcatList ==
  /\ xpc \in {"sweep", "concat"} =>
       /\ concatList = [j \in 1..Len(runs) |-> runs[j].out]
       /\ \A j \in 1..Len(concatList) : [name |-> concatList[j], by |-> xid] \in Storage
  /\ \A k \in 1..Len(runs) : runs[k].kind = "concat" =>
       /\ \A j \in 1..(k - 1) : runs[j].kind \in {"real", "freeze", "tail"}
       /\ runs[k].list = ProducedBefore(k)
       /\ \A i, j \in 1..Len(runs[k].list) : runs[k].list[i] = runs[k].list[j] => i = j
       /\ \A j \in 1..Len(runs[k].list) : [name |-> runs[k].list[j], by |-> xid] \in Storage

\* a concat has run over a real segment, a freeze and the tail
C26_Witness ==
  \E k \in 1..Len(runs) :
    /\ runs[k].kind = "concat"
    /\ Len(runs[k].list) >= 3
    /\ runs[1].kind = "real"

\* the names an invocation writes
Outputs(r) ==
  CASE r.kind \in {"real", "tail"} -> <<r.out>>
    [] r.kind = "freeze" -> <<r.png, r.out>>
    [] r.kind = "concat" -> <<File("list.txt"), File("video_full.mp4")>>
    [] r.kind = "voice" -> <<File("voice.aac")>>
    [] r.kind = "mux" -> <<File("output.mp4")>>

\* the names written so far in this export, with repetitions
RECURSIVE WrittenBy(_)
WrittenBy(rs) == IF rs = <<>> THEN <<>> ELSE WrittenBy(Front(rs)) \o Outputs(Last(rs))
Written ==
  (IF Staged("input.mp4") THEN <<File("input.mp4"), File("voice.m4a")>> ELSE <<>>)
    \o WrittenBy(runs)

\* C27: within one export every file written to the working storage has a
\* name of its own: the clip index grows with each clip, the stills differ
\* from each other, and none is an input, list.txt, video_full.mp4,
\* voice.aac or output.mp4
C27_DistinctNames ==
  LET w == Written
      pl == Plan
  IN  /\ Cardinality({w[i] : i \in 1..Len(w)}) = Len(w)
      /\ \A k \in 1..Len(pl) : pl[k].out = Clip(k - 1)
      /\ \A k \in 1..(Len(pl) - 1) : pl[k].out[2] < pl[k + 1].out[2]
      /\ {f.name : f \in Storage} = {w[i] : i \in 1..Len(w)}

\* an export has written a real clip, two stills, two freezes and its tail
C27_Witness ==
  /\ Ran("mux") /\ Ran("real")
  /\ Cardinality({k \in 1..Len(runs) : runs[k].kind = "freeze"}) = 2

\* C28: the invocations on one engine's working storage are strictly
\* sequential: never more than one in flight, none issued before the one
\* before it has completed, also when export is triggered again while an
\* export is running
C28_Sequential ==
  /\ ~clash
  /\ \A e \in 1..Len(busy) : busy[e] <= 1
  /\ \A p, q \in 1..MaxJobs :
       p # q /\ jpc[p] # "idle" /\ jpc[q] # "idle" => jeng[p] # jeng[q]

\* two exports each have an invocation in flight at the same moment
C28_Witness ==
  /\ \A p \in 1..MaxJobs : jpc[p] = "running"
  /\ \E p \in 1..MaxJobs : jrun[p] > 0

\* the message holds a percentage: a blank, one to three digits, a percent
\* sign; and the number of the first one it holds
HasPercent(m) == \E i \in 1..Len(m), k \in 1..3 : MatchAt(m, i, k)
FirstPercent(m) ==
  LET i == CHOOSE a \in 1..Len(m) :
             /\ \E k \in 1..3 : MatchAt(m, a, k)
             /\ \A b \in 1..(a - 1) : \A k \in 1..3 : ~MatchAt(m, b, k)
      k == CHOOSE c \in 1..3 : MatchAt(m, i, c)
  IN  NumberOf(SubSeq(m, i + 1, i + k))
Calls(m) == IF HasPercent(m) THEN <<FirstPercent(m)>> ELSE <<>>

\* C29: each status message that holds a percentage leads to exactly one
\* onProgress call with the number observed, in the order the messages
\* arrive, also when a value is lower than the one before; a message without
\* a percentage, an empty one and a call without a message lead to no call
C29_Forwarding ==
  /\ logged = 0 => progLog = <<>>
  /\ logged = 1 => progLog = Calls(msg)
  /\ logged = 2 => progLog = Calls(msg) \o Calls(Text(later))

\* a high percentage, then a lower one, have been forwarded
C29_Witness ==
  /\ logged = 2
  /\ Len(progLog) = 2
  /\ progLog[2] < progLog[1]

\* the positions (from 1) of the samples read for column x (from 1) of the
\* buffer drawn: i < step && start + i < float32.length
ReadAt(x) ==
  LET step == Step(wPCM, wWidth)
  IN  {(x - 1) * step + i + 1 : i \in {j \in 0..(step - 1) : (x - 1) * step + j < Len(wPCM)}}

\* C30: the buffer is cut into width windows of ceil(len / width) samples,
\* so every sample lies in exactly one window and counts for that column's
\* min and max; none at the end is left out when len is no multiple of width
C30_EverySample ==
  lastOp.op = "draw" /\ wWidth > 0 =>
    \A i \in 1..Len(wPCM) :
      /\ Cardinality({x \in 1..wWidth : i \in ReadAt(x)}) = 1
      /\ \E x \in 1..Len(columns) : columns[x][1] <= wPCM[i] /\ wPCM[i] <= columns[x][2]

\* C31: at most one capture session is recording or being started; a start
\* request that arrives while an earlier startRecording still awaits the
\* microphone creates no second recorder; and the record button offers to
\* stop exactly when isRecording holds
C31_OneSession ==
  /\ Cardinality(live) + startPending <= 1
  /\ (recLabel = "stop") <=> isRecording

\* the pause events committed while session r was the latest one started
SessionPauses(r) ==
  LET from == ledgerAt[r]
      to == IF r < Len(ledgerAt) THEN ledgerAt[r + 1] ELSE Len(pauses)
  IN SubSeq(pauses, from + 1, to)

\* C32: the pause events handed to an export are exactly those committed in
\* the capture session that produced the exported narration: a recording
\* starts with an empty ledger, no pause event in the ledger was captured on
\* an earlier video file, and an export that has just taken its pauses took
\* those of the session whose stop built the narration blob
C32_SessionLedger ==
  /\ \A r \in 1..Len(ledgerAt) : ledgerAt[r] = 0
  /\ \A i \in 1..Len(pauses) : pauses[i].frameDataURL.src = vSrc
  /\ (lastOp.op = "export" /\ xpc # "idle" /\ blobBy # 0) => pauses0 = SessionPauses(blobBy)

\* C33: the narration sub-range of an export is the one that the trim range
\* gives at the moment doExport is invoked: it is prepared from trimRange
\* and audioPCM as they are then, no step taken while the export runs (a
\* trim, an undo or a redo included) changes it, and it is what the export
\* stages as its narration and leaves staged until it has ended
C33_RangeAtInvocation ==
  [][ /\ (lastOp'.op = "export" /\ xpc' # "idle") =>
           trimmed' = <<Prepared(audioPCM, trimRange)>>
      /\ ExportRunning => trimmed' = trimmed
      /\ (xpc = "stage" /\ xpc' = "sweep") => voiceM4a' = trimmed
      /\ (ExportRunning /\ xpc # "stage") => voiceM4a' = voiceM4a
    ]_vars

\* an export has just staged its narration after the trim range was changed
\* under it: the samples staged are those of the range at invocation, and
\* the range of now would give others
C33_Witness ==
  /\ xpc = "sweep" /\ runs = <<>> /\ lastOp.op = "other"
  /\ trimmed # <<>> /\ voiceM4a = trimmed
  /\ Renderable(audioPCM, trimRange)
  /\ voiceM4a[1] # Prepared(audioPCM, trimRange)
====
